---- MODULE Spec2Model ----
(***************************************************************************)
(* QuantumFleet: the constraint enforcement and repair engine              *)
(* (quantum_aer/constraints_layer.py), the orchestrators' initial          *)
(* assignment (optimizer.py) and the HTTP /optimize handlers (api.py).     *)
(*                                                                         *)
(* Quantities are integers: demand and capacity in load units, distances   *)
(* in km.  The code's tolerance of 1e-6 is smaller than one unit, so       *)
(* "x <= cap + 1e-6" over integers is "x <= cap".  time_est = dist / 30    *)
(* is compared as dist <= 30 * max_time, which is the same comparison      *)
(* without the division.                                                   *)
(***************************************************************************)
EXTENDS Integers, Sequences, FiniteSets, TLC

VARIABLES
    pc,              \* position in optimize_vrp / enforce_constraints
    run,             \* 1: the call made by optimize_vrp, 2: a second call on its output
    veh_types,       \* vehicle id -> type
    veh_caps,        \* vehicle id -> capacity
    demand_by_loc,   \* location id -> demand
    prio_by_loc,     \* location id -> priority (1 = highest)
    ranking_by_loc,  \* location id -> sequence of vehicle ids
    constraints,     \* the request's constraints object
    assignments,     \* vehicle id -> sequence of location ids (a dict: its domain is its key set)
    input,           \* the assignment map as it was when enforce_constraints was entered
    vi,              \* index into allowed_vehicles of the running for-loop
    changed,         \* flag of the capacity repair loop
    change_loop,     \* flag of the distance/time repair loop
    total_dist,      \* last result of estimate_total_distance_km
    now,             \* seconds elapsed since start_time
    unassigned,      \* the returned unassigned list, as a set ({} until the return)
    capped,          \* history: vehicle id -> the list it held when its stop-cap iteration began
    http,            \* the HTTP exchange of the API specification (idle in the engine's)
    calc,            \* a call of a library function: its arguments, then its result
    proc             \* process-wide state of a service: cache, worker threads, module globals

vars == <<pc, run, veh_types, veh_caps, demand_by_loc, prio_by_loc, ranking_by_loc,
          constraints, assignments, input, vi, changed, change_loop, total_dist, now,
          unassigned, capped, http, calc, proc>>

----------------------------------------------------------------------------
(* The request: vehicles and locations in the order of the request.        *)

Vehicles == <<"v1", "v2", "v3">>
VehSet == {Vehicles[k] : k \in 1..Len(Vehicles)}
Locs == <<"l1", "l2", "l3">>
LocSet == {Locs[k] : k \in 1..Len(Locs)}

\* preprocess_to_features: each vehicle's current_location names its depot.
DepotOf == [v \in VehSet |-> IF v = "v2" THEN "depot_2" ELSE "depot_1"]

\* haversine_km(depot, location), a fixed geometry in whole km.
LegKm ==
    [d \in {"depot_1", "depot_2"} |->
        IF d = "depot_1" THEN [l \in LocSet |-> IF l = "l2" THEN 60 ELSE 30]
                         ELSE [l \in LocSet |-> IF l = "l1" THEN 60 ELSE 30]]

TIMEOUT_SECONDS == 5
AVG_SPEED_KMPH == 30
\* The defaults of constraints.get: 1_000_000 stops, and 1e12 km and hours, for which
\* 10^6 stands (above every distance of LegKm, and 30 * 10^6 is within TLC's integers).
DefaultMaxStops == 1000000
DefaultMaxDist == 1000000
DefaultMaxTime == 1000000

\* Bounds of the explored inputs.
MaxPriority == 2
MaxDemand == 2
MaxCapacity == 2
TickSeconds == 5

TypeChoices == {"medium", "large"}
AllowedTypeChoices == {{"small", "medium"}}
\* <<priority, demand>> of a location.
LocProfiles == {<<1, 1>>, <<1, MaxDemand>>, <<MaxPriority, 1>>}
\* Every vehicle of the fleet has the same capacity.
CapChoices == {MaxCapacity}
\* <<max_stops_per_vehicle, max_distance_per_vehicle, max_time_per_vehicle, priority_handling>>
ConstraintChoices ==
    {<<DefaultMaxStops, DefaultMaxDist, DefaultMaxTime, TRUE>>,
     <<1, DefaultMaxDist, DefaultMaxTime, TRUE>>,
     <<2, DefaultMaxDist, DefaultMaxTime, FALSE>>,
     <<DefaultMaxStops, 60, DefaultMaxTime, TRUE>>,
     <<DefaultMaxStops, DefaultMaxDist, 1, TRUE>>,
     <<2, 60, DefaultMaxTime, TRUE>>}

----------------------------------------------------------------------------
(* Sequence helpers.                                                       *)

Range(s) == {s[k] : k \in 1..Len(s)}

RECURSIVE SumOver(_, _)
SumOver(s, f) == IF s = <<>> THEN 0 ELSE f[Head(s)] + SumOver(Tail(s), f)

\* list.remove(x): drops the first occurrence.
RECURSIVE RemoveFirst(_, _)
RemoveFirst(s, x) ==
    IF s = <<>> THEN <<>>
    ELSE IF Head(s) = x THEN Tail(s)
    ELSE <<Head(s)>> \o RemoveFirst(Tail(s), x)

\* Python's sort is stable: equal keys keep their order.  k is the integer key.
RECURSIVE InsertByKey(_, _, _)
InsertByKey(sorted, x, k) ==
    IF sorted = <<>> THEN <<x>>
    ELSE IF k[x] < k[Head(sorted)] THEN <<x>> \o sorted
    ELSE <<Head(sorted)>> \o InsertByKey(Tail(sorted), x, k)

RECURSIVE SortedBy(_, _)
SortedBy(s, k) ==
    IF s = <<>> THEN <<>>
    ELSE InsertByKey(SortedBy(SubSeq(s, 1, Len(s) - 1), k), s[Len(s)], k)

\* The rankings a location may have: the rotations of the vehicle order.
Rotation(k) == [j \in 1..Len(Vehicles) |-> Vehicles[((j + k - 1) % Len(Vehicles)) + 1]]
RankingChoices == {Rotation(k) : k \in 0..(Len(Vehicles) - 1)}

----------------------------------------------------------------------------
(* enforce_constraints: the values it derives on entry.                    *)

max_stops == constraints.max_stops_per_vehicle
max_dist == constraints.max_distance_per_vehicle
max_time == constraints.max_time_per_vehicle
priority_handling == constraints.priority_handling
allowed_types == constraints.allowed_vehicle_types

IsAllowed(v) == veh_types[v] \in allowed_types
allowed_vehicles == SelectSeq(Vehicles, IsAllowed)

\* dict helpers: assignments.keys() in insertion order, .get(vid, []), .setdefault(k, []).append(lid)
KeysOf(a) == SelectSeq(Vehicles, LAMBDA v : v \in DOMAIN a)
Get(a, vid) == IF vid \in DOMAIN a THEN a[vid] ELSE <<>>
SetDefaultAppend(a, k, lid) ==
    IF k \in DOMAIN a THEN [a EXCEPT ![k] = Append(@, lid)]
    ELSE a @@ (k :> <<lid>>)

Assigned(a) == UNION {Range(a[v]) : v \in DOMAIN a}

compute_depot_for_vehicle(v) == DepotOf[v]

estimate_total_distance_km(a) ==
    [vid \in DOMAIN a |-> SumOver(a[vid], LegKm[compute_depot_for_vehicle(vid)])]

DistOf(td, vid) == IF vid \in DOMAIN td THEN td[vid] ELSE 0

\* dist <= max_dist + 1e-6 and dist / 30 <= max_time + 1e-6
WithinDistTime(dist) == dist <= max_dist /\ dist <= AVG_SPEED_KMPH * max_time

TotalDemand(locs) == SumOver(locs, demand_by_loc)

\* FirstAlt without the type check on the alternate.
FirstAltAnyType(lid, vid) ==
    LET alts == SelectSeq(ranking_by_loc[lid], LAMBDA v : v # vid)
    IN IF alts = <<>> THEN "none" ELSE alts[1]

\* The first vehicle of lid's ranking that is allowed and is not vid ("none" if there is none).
FirstAlt(lid, vid) ==
    LET alts == SelectSeq(ranking_by_loc[lid], LAMBDA v : v # vid /\ IsAllowed(v))
    IN IF alts = <<>> THEN "none" ELSE alts[1]

\* Remove each of lids, in order, from vid's list and append it to its first alternate.
RECURSIVE HandOver(_, _, _)
HandOver(a, vid, lids) ==
    IF lids = <<>> THEN a
    ELSE LET lid == Head(lids)
             a1 == [a EXCEPT ![vid] = RemoveFirst(@, lid)]
             alt == FirstAlt(lid, vid)
         IN HandOver(IF alt = "none" THEN a1 ELSE SetDefaultAppend(a1, alt, lid),
                     vid, Tail(lids))

\* The move without the type check: to the vehicle ranked after the location's first.
RECURSIVE MoveToNextRanked(_, _)
MoveToNextRanked(a, lids) ==
    IF lids = <<>> THEN a
    ELSE MoveToNextRanked(SetDefaultAppend(a, ranking_by_loc[Head(lids)][2], Head(lids)),
                          Tail(lids))

(* Phase 1, lines 59-67: the locations of a vehicle of a disallowed type   *)
(* go to the first allowed vehicle of their ranking.                       *)
RECURSIVE MoveToAllowed(_, _)
MoveToAllowed(a, lids) ==
    IF lids = <<>> THEN a
    ELSE LET lid == Head(lids)
             choices == SelectSeq(ranking_by_loc[lid], IsAllowed)
         IN MoveToAllowed(IF choices = <<>> THEN a
                          ELSE SetDefaultAppend(a, choices[1], lid),
                          Tail(lids))

RECURSIVE TypeEligibility(_, _)
TypeEligibility(a, keys) ==
    IF keys = <<>> THEN a
    ELSE LET vid == Head(keys)
         IN IF IsAllowed(vid) THEN TypeEligibility(a, Tail(keys))
            ELSE TypeEligibility([MoveToAllowed(a, a[vid]) EXCEPT ![vid] = <<>>],
                                 Tail(keys))

(* Phase 2, lines 69-85: one iteration of the for-loop, for vehicle vid.   *)
\* The priority sort with reverse=True: highest priority number first.
StopCapSortedDescending(locs) ==
    IF priority_handling THEN SortedBy(locs, [l \in LocSet |-> 0 - prio_by_loc[l]]) ELSE locs

StopCapSorted(locs) == IF priority_handling THEN SortedBy(locs, prio_by_loc) ELSE locs

\* The overflow cut off and handed to nobody.
OverflowDropped(a, vid, lids) == a

\* Appends each overflow location to its first alternate; vid's own list is already cut.
RECURSIVE AppendToAlts(_, _, _)
AppendToAlts(a, vid, lids) ==
    IF lids = <<>> THEN a
    ELSE LET alt == FirstAlt(Head(lids), vid)
         IN AppendToAlts(IF alt = "none" THEN a ELSE SetDefaultAppend(a, alt, Head(lids)),
                         vid, Tail(lids))

StopCapTurn(a, vid) ==
    LET locs == Get(a, vid)
        sorted == StopCapSorted(locs)
    IN IF locs = <<>> THEN a
       ELSE IF Len(sorted) > max_stops
            THEN AppendToAlts([a EXCEPT ![vid] = SubSeq(sorted, 1, max_stops)], vid,
                              SubSeq(sorted, max_stops + 1, Len(sorted)))
            ELSE [a EXCEPT ![vid] = sorted]

(* Phase 3, lines 90-105: one iteration of the for-loop, for vehicle vid.  *)
OverCapacity(a, vid) == TotalDemand(Get(a, vid)) > veh_caps[vid]

\* sorted(locs, key=(prio, -demand), reverse=True): descending priority number, then
\* ascending demand; as one ascending integer key.
CapacityKey == [l \in LocSet |-> (0 - prio_by_loc[l]) * (MaxDemand + 1) + demand_by_loc[l]]

\* The turn that stops at the first removal.
CapacityTurnFirstOnly(a, vid) ==
    IF OverCapacity(a, vid)
    THEN HandOver(a, vid, SubSeq(SortedBy(Get(a, vid), CapacityKey), 1, 1))
    ELSE a

CapacityTurn(a, vid) ==
    IF OverCapacity(a, vid)
    THEN HandOver(a, vid, SortedBy(Get(a, vid), CapacityKey))
    ELSE a

(* Phase 4, lines 112-139: one iteration of the for-loop, for vehicle vid. *)
DistanceKey == [l \in LocSet |-> 0 - prio_by_loc[l]]

\* The removal loop of lines 122-136: stops once vid is back within both budgets.
RECURSIVE RemoveUntilWithin(_, _, _)
RemoveUntilWithin(a, vid, lids) ==
    IF lids = <<>> THEN a
    ELSE LET lid == Head(lids)
         IN IF lid \notin Range(a[vid]) THEN RemoveUntilWithin(a, vid, Tail(lids))
            ELSE LET a1 == HandOver(a, vid, <<lid>>)
                 IN IF WithinDistTime(DistOf(estimate_total_distance_km(a1), vid))
                    THEN a1
                    ELSE RemoveUntilWithin(a1, vid, Tail(lids))

\* The distance test alone, the time budget forgotten.
DistanceOnlyViolated(a, td, vid) == DistOf(td, vid) > max_dist /\ Get(a, vid) # <<>>

DistanceViolated(a, td, vid) == ~WithinDistTime(DistOf(td, vid)) /\ Get(a, vid) # <<>>

\* The turn that removes every location of a violating vehicle.
DistanceTurnAll(a, td, vid) ==
    IF DistanceViolated(a, td, vid)
    THEN HandOver(a, vid, SortedBy(Get(a, vid), DistanceKey))
    ELSE a

DistanceTurn(a, td, vid) ==
    IF DistanceViolated(a, td, vid)
    THEN RemoveUntilWithin(a, vid, SortedBy(Get(a, vid), DistanceKey))
    ELSE a

\* Unassigned left empty whatever was dropped.
UnassignedNone(a) == {}

(* Lines 145-147.                                                          *)
Unassigned(a) == LocSet \ Assigned(a)

(* optimize_vrp, lines 40-43: every vehicle gets a key, every location     *)
(* goes to the head of its ranking.                                        *)
RECURSIVE AssignBest(_, _)
AssignBest(a, lids) ==
    IF lids = <<>> THEN a
    ELSE LET order_ids == ranking_by_loc[Head(lids)]
             best_vid == IF order_ids # <<>> THEN order_ids[1] ELSE Vehicles[1]
         IN AssignBest([a EXCEPT ![best_vid] = Append(@, Head(lids))], Tail(lids))

\* The initial assignment built with setdefault: a key only for a vehicle that is
\* some location's first choice.
InitialAssignmentSparse ==
    LET full == AssignBest([v \in VehSet |-> <<>>], Locs)
    IN [v \in {w \in VehSet : full[w] # <<>>} |-> full[v]]

InitialAssignment == AssignBest([v \in VehSet |-> <<>>], Locs)

\* An assignment that needs no repair: what property 9 of the spec calls "within all budgets".
WithinAllBudgets(a) ==
    /\ \A v \in DOMAIN a : ~IsAllowed(v) => a[v] = <<>>
    /\ \A v \in DOMAIN a : IsAllowed(v) =>
          /\ Len(a[v]) <= max_stops
          /\ ~OverCapacity(a, v)
          /\ WithinDistTime(DistOf(estimate_total_distance_km(a), v))

----------------------------------------------------------------------------
(* The state machine.                                                      *)

NoLists == [v \in {} |-> <<>>]
NoDistances == [v \in {} |-> 0]
IdleHttp == [hpc |-> "idle"]
IdleCalc == [op |-> "idle"]
IdleProc == [svc |-> "idle"]

Init ==
    /\ pc = "entry"
    /\ run = 1
    /\ veh_types \in [VehSet -> TypeChoices]
    /\ veh_caps \in {[v \in VehSet |-> c] : c \in CapChoices}
    /\ \E prof \in [LocSet -> LocProfiles] :
          /\ prio_by_loc = [l \in LocSet |-> prof[l][1]]
          /\ demand_by_loc = [l \in LocSet |-> prof[l][2]]
    /\ ranking_by_loc \in [LocSet -> RankingChoices]
    /\ \E c \in ConstraintChoices, at \in AllowedTypeChoices :
          constraints = [max_stops_per_vehicle |-> c[1],
                         max_distance_per_vehicle |-> c[2],
                         max_time_per_vehicle |-> c[3],
                         priority_handling |-> c[4],
                         allowed_vehicle_types |-> at]
    /\ assignments = NoLists
    /\ input = NoLists
    /\ vi = 1
    /\ changed = TRUE
    /\ change_loop = TRUE
    /\ total_dist = NoDistances
    /\ now = 0
    /\ unassigned = {}
    /\ capped = NoLists
    /\ http = IdleHttp
    /\ calc = IdleCalc
    /\ proc = IdleProc

inputs == <<veh_types, veh_caps, demand_by_loc, prio_by_loc, ranking_by_loc, constraints, http,
            calc, proc>>

\* Where the for-loop over allowed_vehicles goes after iteration vi.
AfterTurn(loop, head) ==
    IF vi < Len(allowed_vehicles)
    THEN pc' = loop /\ vi' = vi + 1
    ELSE pc' = head /\ vi' = 1

\* optimize_vrp lines 40-45: build the initial assignment and call enforce_constraints.
optimize_vrp ==
    /\ pc = "entry"
    /\ assignments' = InitialAssignment
    /\ input' = InitialAssignment
    /\ pc' = "type"
    /\ UNCHANGED <<run, inputs, vi, changed, change_loop, total_dist, now, unassigned, capped>>

\* Lines 59-67, then line 87 if no vehicle is allowed.
TypePhase ==
    /\ pc = "type"
    /\ assignments' = TypeEligibility(assignments, KeysOf(assignments))
    /\ pc' = IF allowed_vehicles = <<>> THEN "cap_head" ELSE "stops"
    /\ vi' = 1
    /\ changed' = TRUE
    /\ UNCHANGED <<run, inputs, input, change_loop, total_dist, now, unassigned, capped>>

\* Lines 69-85, one vehicle; line 87 after the last.
StopsTurn ==
    /\ pc = "stops"
    /\ assignments' = StopCapTurn(assignments, allowed_vehicles[vi])
    /\ AfterTurn("stops", "cap_head")
    /\ changed' = TRUE
    /\ capped' = (allowed_vehicles[vi] :> Get(assignments, allowed_vehicles[vi])) @@ capped
    /\ UNCHANGED <<run, inputs, input, change_loop, total_dist, now, unassigned>>

\* The capacity loop head without the reading of the clock.
CapHeadNoClock ==
    /\ pc = "cap_head"
    /\ IF changed
       THEN /\ changed' = FALSE
            /\ pc' = IF allowed_vehicles = <<>> THEN "cap_head" ELSE "cap_turn"
            /\ UNCHANGED change_loop
       ELSE /\ change_loop' = TRUE
            /\ pc' = "dist_head"
            /\ UNCHANGED changed
    /\ vi' = 1
    /\ UNCHANGED <<run, inputs, assignments, input, total_dist, now, unassigned, capped>>

\* Line 88, the loop head of the capacity repair; lines 107-108 on exit.
CapHead ==
    /\ pc = "cap_head"
    /\ IF changed /\ now < TIMEOUT_SECONDS
       THEN /\ changed' = FALSE
            /\ pc' = IF allowed_vehicles = <<>> THEN "cap_head" ELSE "cap_turn"
            /\ UNCHANGED change_loop
       ELSE /\ change_loop' = TRUE
            /\ pc' = "dist_head"
            /\ UNCHANGED changed
    /\ vi' = 1
    /\ UNCHANGED <<run, inputs, assignments, input, total_dist, now, unassigned, capped>>

\* Lines 90-105, one vehicle.
CapTurn ==
    /\ pc = "cap_turn"
    /\ assignments' = CapacityTurn(assignments, allowed_vehicles[vi])
    /\ changed' = (changed \/ OverCapacity(assignments, allowed_vehicles[vi]))
    /\ AfterTurn("cap_turn", "cap_head")
    /\ UNCHANGED <<run, inputs, input, change_loop, total_dist, now, unassigned, capped>>

\* Lines 109-111, the loop head of the distance/time repair.
DistHead ==
    /\ pc = "dist_head"
    /\ IF change_loop /\ now < TIMEOUT_SECONDS
       THEN /\ change_loop' = FALSE
            /\ total_dist' = estimate_total_distance_km(assignments)
            /\ pc' = IF allowed_vehicles = <<>> THEN "dist_head" ELSE "dist_turn"
       ELSE /\ pc' = "final"
            /\ UNCHANGED <<change_loop, total_dist>>
    /\ vi' = 1
    /\ UNCHANGED <<run, inputs, assignments, input, changed, now, unassigned, capped>>

\* Lines 112-139, one vehicle.
DistTurn ==
    /\ pc = "dist_turn"
    /\ LET vid == allowed_vehicles[vi]
           hit == DistanceViolated(assignments, total_dist, vid)
       IN /\ assignments' = DistanceTurn(assignments, total_dist, vid)
          /\ total_dist' = IF hit THEN estimate_total_distance_km(assignments')
                           ELSE total_dist
          /\ change_loop' = (change_loop \/ hit)
    /\ AfterTurn("dist_turn", "dist_head")
    /\ UNCHANGED <<run, inputs, input, changed, now, unassigned, capped>>

\* Lines 142-149.
Finalize ==
    /\ pc = "final"
    /\ unassigned' = Unassigned(assignments)
    /\ pc' = "done"
    /\ UNCHANGED <<run, inputs, assignments, input, vi, changed, change_loop, total_dist, now,
                   capped>>

\* The wall clock advances while enforce_constraints runs.  It is read at the two
\* loop heads only, so it is advanced there; past the budget its value no longer matters.
Tick ==
    /\ pc \in {"cap_head", "dist_head"}
    /\ now < TIMEOUT_SECONDS
    /\ now' = now + TickSeconds
    /\ UNCHANGED <<pc, run, inputs, assignments, input, vi, changed, change_loop,
                   total_dist, unassigned, capped>>

\* A second call of enforce_constraints, on the output of the first when that output
\* needs no repair.
Rerun ==
    /\ pc = "done"
    /\ run = 1
    /\ WithinAllBudgets(assignments)
    /\ run' = 2
    /\ input' = assignments
    /\ pc' = "type"
    /\ now' = 0
    /\ unassigned' = {}
    /\ capped' = NoLists
    /\ vi' = 1
    /\ changed' = TRUE
    /\ change_loop' = TRUE
    /\ total_dist' = NoDistances
    /\ UNCHANGED <<inputs, assignments>>

Step ==
    \/ optimize_vrp
    \/ TypePhase
    \/ StopsTurn
    \/ CapHead
    \/ CapTurn
    \/ DistHead
    \/ DistTurn
    \/ Finalize
    \/ Rerun

Next == Step \/ Tick

Spec == Init /\ [][Next]_vars

\* The requests of the liveness check: those of Init in which location l1 ranks the
\* vehicles in fleet order.  The repair loops settle for some and pass locations back
\* and forth without end for others.
LiveInit == Init /\ ranking_by_loc["l1"] = Vehicles

\* Step can be taken: the call has not returned, or a second call can be made.  It is
\* ENABLED <<Step>>_vars, as every step of the program changes pc, vi, changed or run.
StepEnabled == pc # "done" \/ (run = 1 /\ WithinAllBudgets(assignments))

\* The interpreter runs the next statement: weak fairness of Step, with its enabling
\* condition written as the state predicate above.
StepFair == <>[]StepEnabled => []<><<Step>>_vars

\* The interpreter runs the next statement; and the clock advances: of infinitely many
\* readings at the loop heads, not all can find less than 5 seconds elapsed.
FairSpec == LiveInit /\ [][Next]_vars /\ StepFair /\ SF_vars(Tick)

\* The call with a clock that never reaches the budget: the loops are left only by a
\* pass that changed nothing.  The interpreter runs the next statement (Step, and the
\* two loop heads in particular).
UntimedSpec ==
    LiveInit /\ [][Step]_vars /\ StepFair /\ WF_vars(CapHead) /\ WF_vars(DistHead)

----------------------------------------------------------------------------
(* The HTTP services, the demo command and the four orchestrators.  One     *)
(* request is drawn; its handler runs to the response, the call of          *)
(* optimize_vrp included.                                                   *)

Services == {"logic", "accelerated", "cloud"}
\* a top-level field of the body: not there, an empty list, or a list with entries
FieldStates == {"absent", "empty", "nonempty"}
Methods == {"qaoa", "pqc"}
\* A failure of what optimize_vrp calls (simulator, backend, arithmetic), by the
\* pipeline step it happens in; "none" when nothing fails.
Faults == {"none", "ranking", "initial_assignment", "repair", "summary"}

NoPayload == [status |-> "none", message |-> FALSE, meta |-> FALSE]
ResultPayload == [status |-> "ok", message |-> FALSE, meta |-> TRUE]
ErrorPayload == [status |-> "error", message |-> TRUE, meta |-> TRUE]

\* preprocess_to_features reads raw["vehicles"], raw["depots"] and raw["locations"]
\* (KeyError when absent); with no locations the frame has no "demand" column.
PreprocessRaises(req) ==
    \/ req.vehicles = "absent"
    \/ req.depots = "absent"
    \/ req.locations \in {"absent", "empty"}

\* The step of optimize_vrp at which an exception is raised, "none" if none is.
RaisedAt(req) ==
    IF req.caller = "cloud" /\ req.method # "qaoa" THEN "method_check"
    ELSE IF PreprocessRaises(req) THEN "preprocessing"
    ELSE req.fault

\* Whether the variant's optimize_vrp has its body in try / except Exception.
CatchesAll(variant) == variant \in {"accelerated", "cloud"}

\* One call of optimize_vrp: the request with the call's outcome recorded.
optimize_vrp_call(req) ==
    LET at == RaisedAt(req)
    IN [req EXCEPT !.orch_called = TRUE,
                   !.raised_at = at,
                   !.escaped = (at # "none" /\ ~CatchesAll(req.caller)),
                   !.payload = IF at = "none" THEN ResultPayload
                               ELSE IF CatchesAll(req.caller) THEN ErrorPayload
                               ELSE NoPayload]

Respond(req, code) == [req EXCEPT !.hpc = "responded", !.status = code]

\* What the framework or the handler answers after the call: 500 for an exception
\* or an error payload, 200 with the result otherwise.
AfterCall(called) ==
    Respond(called, IF called.escaped \/ called.payload.status = "error" THEN 500 ELSE 200)

Requests ==
    {[hpc |-> "received", caller |-> c, method |-> m, locations |-> l, vehicles |-> v,
      depots |-> d, fault |-> f, orch_called |-> FALSE, raised_at |-> "none",
      escaped |-> FALSE, payload |-> NoPayload, status |-> 0] :
        c \in Services, m \in Methods, l \in FieldStates, v \in FieldStates,
        d \in FieldStates, f \in Faults}

\* The demo command runs the baseline orchestrator on the built-in sample dataset.
DemoRuns ==
    {[hpc |-> "received", caller |-> "baseline", method |-> "pqc", locations |-> "nonempty",
      vehicles |-> "nonempty", depots |-> "nonempty", fault |-> f, orch_called |-> FALSE,
      raised_at |-> "none", escaped |-> FALSE, payload |-> NoPayload, status |-> 0] :
        f \in Faults}

\* The engine at rest, for the specifications of the other components.
EngineOff ==
    /\ pc = "off"
    /\ run = 1
    /\ veh_types = [v \in VehSet |-> "medium"]
    /\ veh_caps = [v \in VehSet |-> MaxCapacity]
    /\ demand_by_loc = [l \in LocSet |-> 1]
    /\ prio_by_loc = [l \in LocSet |-> 1]
    /\ ranking_by_loc = [l \in LocSet |-> Vehicles]
    /\ constraints = [max_stops_per_vehicle |-> DefaultMaxStops,
                      max_distance_per_vehicle |-> DefaultMaxDist,
                      max_time_per_vehicle |-> DefaultMaxTime,
                      priority_handling |-> TRUE,
                      allowed_vehicle_types |-> {"small", "medium", "large"}]
    /\ assignments = NoLists
    /\ input = NoLists
    /\ vi = 1
    /\ changed = TRUE
    /\ change_loop = TRUE
    /\ total_dist = NoDistances
    /\ now = 0
    /\ unassigned = {}
    /\ capped = NoLists

ApiInit ==
    /\ http \in Requests \cup DemoRuns
    /\ EngineOff
    /\ calc = IdleCalc
    /\ proc = IdleProc

engine == <<pc, run, veh_types, veh_caps, demand_by_loc, prio_by_loc, ranking_by_loc,
            constraints, assignments, input, vi, changed, change_loop, total_dist, now,
            unassigned, capped, calc, proc>>

\* quantum_logic/api.py: the body goes to optimize_vrp as it is.
optimize_logic ==
    /\ http.hpc = "received" /\ http.caller = "logic"
    /\ http' = AfterCall(optimize_vrp_call(http))
    /\ UNCHANGED engine

\* quantum_aer/api.py: 400 unless depots and locations are non-empty; vehicles is
\* not looked at.
optimize_accelerated ==
    /\ http.hpc = "received" /\ http.caller = "accelerated"
    /\ http' = IF http.depots # "nonempty" \/ http.locations # "nonempty"
               THEN Respond(http, 400)
               ELSE AfterCall(optimize_vrp_call(http))
    /\ UNCHANGED engine

\* quantum_cloud/api.py: for method "qaoa" 400 unless all three fields are non-empty
\* lists; for any other method 400 only if locations is absent.
optimize_cloud ==
    /\ http.hpc = "received" /\ http.caller = "cloud"
    /\ http' = IF http.method = "qaoa"
               THEN IF \/ http.locations # "nonempty"
                       \/ http.vehicles # "nonempty"
                       \/ http.depots # "nonempty"
                    THEN Respond(http, 400)
                    ELSE AfterCall(optimize_vrp_call(http))
               ELSE IF http.locations = "absent"
                    THEN Respond(http, 400)
                    ELSE AfterCall(optimize_vrp_call(http))
    /\ UNCHANGED engine

\* quantum/sample.py: main calls the baseline optimize_vrp; an exception ends the
\* command (no HTTP status).
main ==
    /\ http.hpc = "received" /\ http.caller = "baseline"
    /\ http' = Respond(optimize_vrp_call(http), 0)
    /\ UNCHANGED engine

ApiNext == optimize_logic \/ optimize_accelerated \/ optimize_cloud \/ main

ApiSpec == ApiInit /\ [][ApiNext]_vars

----------------------------------------------------------------------------
(* Library functions.  A call is drawn with its arguments; the action       *)
(* applies the function and records the result.                             *)

\* every variable but calc
allButCalc == <<pc, run, veh_types, veh_caps, demand_by_loc, prio_by_loc, ranking_by_loc,
                constraints, assignments, input, vi, changed, change_loop, total_dist, now,
                unassigned, capped, http, proc>>

Others == EngineOff /\ http = IdleHttp /\ proc = IdleProc

\* Bounds of the ranking calls.
MaxTrucks == 3
MaxCount == 2
MaxCost == 2

Reverse(s) == [i \in 1..Len(s) |-> s[Len(s) + 1 - i]]

\* sort with reverse=True and no regard for stability: ascending sort, then reversed.
SortedThenReversed(s, k) == Reverse(SortedBy(s, k))

\* list.sort(key=k, reverse=True) and sorted(..., key=k, reverse=True): the list is
\* reversed, sorted stably in ascending order and reversed again, so that equal keys
\* keep their original order.
SortedByReverse(s, k) == Reverse(SortedBy(Reverse(s), k))

\* range(num_trucks) as a list
IndexRange(num_trucks) == [j \in 1..num_trucks |-> j - 1]

\* truck_counts.get(idx, 0) for every index
CountOrZero(truck_counts, num_trucks) ==
    [i \in 0..(num_trucks - 1) |-> IF i \in DOMAIN truck_counts THEN truck_counts[i] ELSE 0]

\* quantum_layer.py lines 79-82
truck_index_order_from_counts(truck_counts, num_trucks) ==
    SortedByReverse(IndexRange(num_trucks), CountOrZero(truck_counts, num_trucks))

\* optimizer.py (baseline) lines 70-73: by counts if there are any, else by ascending cost
order_idx_qaoa(counts_idx, costs, num_trucks) ==
    IF DOMAIN counts_idx # {}
    THEN SortedByReverse(IndexRange(num_trucks), CountOrZero(counts_idx, num_trucks))
    ELSE SortedBy(IndexRange(num_trucks), costs)

\* Histograms over the indices below n: simulate_counts keeps states below num_trucks,
\* every kept state was observed at least once.
CountMaps(n) ==
    UNION {[D -> 1..MaxCount] : D \in SUBSET (0..(n - 1))}

RankingCall(method, n, c, k) ==
    [op |-> "ranking", method |-> method, num_trucks |-> n, counts |-> c, costs |-> k,
     done |-> FALSE, order |-> <<>>]

\* The PQC path ranks any histogram; the QAOA path ranks what run_qaoa_assignment
\* returns, which has at least one entry (its argmin fallback) and needs a vehicle.
RankInit ==
    /\ \/ \E n \in 0..MaxTrucks : \E c \in CountMaps(n) :
             calc = RankingCall("pqc", n, c, [i \in 0..(n - 1) |-> 1])
       \/ \E n \in 1..MaxTrucks : \E c \in CountMaps(n) \ {<<>>} :
             \E k \in [0..(n - 1) -> 1..MaxCost] :
                calc = RankingCall("qaoa", n, c, k)
    /\ Others

\* quantum_logic/optimizer.py lines 34-37
RankPqc ==
    /\ calc.op = "ranking" /\ calc.method = "pqc" /\ ~calc.done
    /\ calc' = [calc EXCEPT !.done = TRUE,
                            !.order = truck_index_order_from_counts(calc.counts,
                                                                    calc.num_trucks)]
    /\ UNCHANGED allButCalc

\* quantum/optimizer.py lines 66-74
RankQaoa ==
    /\ calc.op = "ranking" /\ calc.method = "qaoa" /\ ~calc.done
    /\ calc' = [calc EXCEPT !.done = TRUE,
                            !.order = order_idx_qaoa(calc.counts, calc.costs,
                                                     calc.num_trucks)]
    /\ UNCHANGED allButCalc

RankNext == RankPqc \/ RankQaoa

RankSpec == RankInit /\ [][RankNext]_vars

\* Bound of the corridor calls: the length of the location list.
MaxCorridorLocs == 3

\* Bearings from the depot in whole degrees, as bearing() returns them in [0, 360):
\* two near each other, two across the wrap at 0, one opposite.
Bearings == {0, 15, 350, 180}

\* tolerance: negative, zero, the default, and half a turn
Tolerances == {-1, 0, 20, 180}

\* abs((b - other_b + 180) % 360 - 180)
AngleBetween(b, other_b) ==
    LET d == ((b - other_b + 180) % 360) - 180
    IN IF d < 0 THEN -d ELSE d

\* the ids appended to the corridor of the location with bearing b
Joining(b, rest, tolerance) ==
    SelectSeq(rest, LAMBDA other : AngleBetween(b, other.b) <= tolerance)

\* a loop that leaves the joined locations in the list
RemainingAll(b, rest, tolerance) == rest

\* remaining: the others, in order
Remaining(b, rest, tolerance) ==
    SelectSeq(rest, LAMBDA other : ~(AngleBetween(b, other.b) <= tolerance))

IdsOf(locs) == [i \in 1..Len(locs) |-> locs[i].id]

CorridorCall(ls, t) ==
    [op |-> "corridors", locations |-> ls, tolerance |-> t, unassigned |-> ls,
     corridors |-> <<>>, done |-> FALSE]

\* Location lists: nothing makes the ids of a request distinct.
CorridorInit ==
    /\ \E n \in 0..MaxCorridorLocs : \E ls \in [1..n -> [id : LocSet, b : Bearings]] :
          \E t \in Tolerances : calc = CorridorCall(ls, t)
    /\ Others

\* one turn of `while unassigned`
CorridorTurn ==
    /\ calc.op = "corridors" /\ ~calc.done /\ calc.unassigned # <<>>
    /\ LET loc == Head(calc.unassigned)
           rest == Tail(calc.unassigned)
           corridor == <<loc.id>> \o IdsOf(Joining(loc.b, rest, calc.tolerance))
       IN calc' = [calc EXCEPT !.corridors = Append(@, corridor),
                               !.unassigned = Remaining(loc.b, rest, calc.tolerance)]
    /\ UNCHANGED allButCalc

\* return corridors
CorridorReturn ==
    /\ calc.op = "corridors" /\ ~calc.done /\ calc.unassigned = <<>>
    /\ calc' = [calc EXCEPT !.done = TRUE]
    /\ UNCHANGED allButCalc

CorridorNext == CorridorTurn \/ CorridorReturn

CorridorSpec == CorridorInit /\ [][CorridorNext]_vars

(* The QAOA result cache of the cloud variant.  Costs are counted in thirds *)
(* of 10^-6 and the penalty in thirds of 10^-3, so that a value never lies  *)
(* halfway between two roundings.                                            *)

\* Bounds of the cache-key calls: the length of a cost vector and its largest entry.
MaxKeyLen == 2
MaxThirds == 4

\* f'{c:.6f}': the nearest multiple of 10^-6
Fmt6(c) == (c + 1) \div 3

\* f'{A:.3f}': the nearest multiple of 10^-3
Fmt3(A) == (A + 1) \div 3

\* get_circuit_cache_key: the digest of "c1,c2,..._A_p"; the digest is taken to tell
\* any two of these strings apart, so the key is the string.
get_circuit_cache_key(costs, A, p) ==
    <<[i \in 1..Len(costs) |-> Fmt6(costs[i])], Fmt3(A), p>>

\* (counts by index, best pair) results of an assignment
QaoaResults ==
    {[counts |-> (0 :> 2), pair |-> <<1, 2>>],
     [counts |-> (0 :> 1) @@ (1 :> 1), pair |-> <<3, 7>>]}

\* the items of a dict in key order
RECURSIVE ItemsOf(_)
ItemsOf(d) ==
    IF DOMAIN d = {} THEN <<>>
    ELSE LET k == CHOOSE x \in DOMAIN d : \A y \in DOMAIN d : x <= y
         IN <<<<k, d[k]>>>> \o ItemsOf([y \in DOMAIN d \ {k} |-> d[y]])

\* a serialisation that leaves out the parameter pair
DumpWithoutPair(result) == <<ItemsOf(result.counts), <<>>>>

\* pickle.dump(result, f): the tuple as bytes, the dict as its items
Dump(result) == <<ItemsOf(result.counts), result.pair>>

\* pickle.load(f): the tuple rebuilt from the bytes
Load(bytes) ==
    [counts |-> [k \in {bytes[1][j][1] : j \in 1..Len(bytes[1])} |->
                    LET j == CHOOSE j \in 1..Len(bytes[1]) : bytes[1][j][1] = k
                    IN bytes[1][j][2]],
     pair |-> bytes[2]]

None == [none |-> TRUE]

\* save_cached_result: writes the file, or warns and leaves the directory as it was
save_cached_result(files, cache_key, result, disk_ok) ==
    IF disk_ok
    THEN [k \in DOMAIN files \cup {cache_key} |->
            IF k = cache_key THEN Dump(result) ELSE files[k]]
    ELSE files

\* load_cached_result: the stored tuple, or None when there is no file
load_cached_result(files, cache_key) ==
    IF cache_key \in DOMAIN files THEN Load(files[cache_key]) ELSE None

\* the penalty default 3.0 and a value just above it
KeyPenalties == {9, 10}

NoFiles == [k \in {} |-> <<>>]

\* a stale entry under the key of the call, written by an earlier run
StaleFiles(cs, a, p) ==
    (get_circuit_cache_key(cs, a, p) :> Dump([counts |-> (0 :> 2), pair |-> <<3, 7>>]))

\* a call: a result to save, and entry i of the costs changed to another value
KeyCall(cs, a, p, r, ok, stale, i, c2) ==
    [op |-> "cache", step |-> "start", costs |-> cs, A |-> a, p |-> p,
     result |-> r, disk_ok |-> ok,
     files |-> IF stale THEN StaleFiles(cs, a, p) ELSE NoFiles,
     i |-> i, changed |-> c2, loaded |-> None, key |-> <<>>, key2 |-> <<>>]

KeyInit ==
    /\ \E n \in 1..MaxKeyLen : \E cs \in [1..n -> 0..MaxThirds] :
          \E a \in KeyPenalties, r \in QaoaResults, ok \in BOOLEAN, stale \in BOOLEAN :
             \E i \in 1..n : \E c2 \in (0..MaxThirds) \ {cs[i]} :
                calc = KeyCall(cs, a, 1, r, ok, stale, i, c2)
    /\ Others

\* save_cached_result(get_circuit_cache_key(costs, A, p), result)
cache_save ==
    /\ calc.op = "cache" /\ calc.step = "start"
    /\ LET key == get_circuit_cache_key(calc.costs, calc.A, calc.p)
       IN calc' = [calc EXCEPT !.step = "saved", !.key = key,
                               !.files = save_cached_result(calc.files, key,
                                                            calc.result, calc.disk_ok)]
    /\ UNCHANGED allButCalc

\* load_cached_result(get_circuit_cache_key(costs, A, p)), the key derived again
cache_load ==
    /\ calc.op = "cache" /\ calc.step = "saved"
    /\ calc' = [calc EXCEPT !.step = "loaded",
                            !.loaded = load_cached_result(calc.files,
                                 get_circuit_cache_key(calc.costs, calc.A, calc.p))]
    /\ UNCHANGED allButCalc

\* get_circuit_cache_key of the costs with entry i changed
cache_rekey ==
    /\ calc.op = "cache" /\ calc.step = "loaded"
    /\ calc' = [calc EXCEPT !.step = "done",
                            !.key2 = get_circuit_cache_key(
                                 [calc.costs EXCEPT ![calc.i] = calc.changed],
                                 calc.A, calc.p)]
    /\ UNCHANGED allButCalc

KeyNext == cache_save \/ cache_load \/ cache_rekey

KeySpec == KeyInit /\ [][KeyNext]_vars

(* The Ising coefficients of the QAOA cost function.  h and J are counted in *)
(* halves, which the code's floating-point values are exact multiples of for *)
(* integer costs and penalty.                                                *)

\* Bounds of the coefficient calls: qubits, the largest cost, the largest penalty.
MaxQubits == 3
MaxIsingCost == 3
MaxPenalty == 2

QaoaVariants == {"baseline", "accelerated", "cloud"}

\* coefficients with the penalty spread over K - 1 instead of K - 2
compute_h_coeffs_shifted(costs, A) ==
    [h |-> [i \in 1..Len(costs) |-> -(costs[i] + A * (Len(costs) - 1))], J |-> A]

\* _compute_h_coeffs: h = -0.5 * (costs + A * (K - 2)), J = A / 2.0, both in halves
compute_h_coeffs(costs, A) ==
    [h |-> [i \in 1..Len(costs) |-> -(costs[i] + A * (Len(costs) - 2))], J |-> A]

RECURSIVE SumTo(_, _)
SumTo(f, n) == IF n = 0 THEN 0 ELSE f[n] + SumTo(f, n - 1)

\* _bit_cost: np.dot(costs, x) + A * (np.sum(x) - 1.0) ** 2
bit_cost(x, costs, A) ==
    SumTo([i \in 1..Len(x) |-> costs[i] * x[i]], Len(x))
        + A * (SumTo(x, Len(x)) - 1) * (SumTo(x, Len(x)) - 1)

\* sum_i h_i z_i + J sum_{i<j} z_i z_j with z_i = 1 - 2 x_i, in halves
IsingValue(x, h, J) ==
    LET z == [i \in 1..Len(x) |-> 1 - 2 * x[i]]
        K == Len(x)
        pairs == [i \in 1..K |-> z[i] * SumTo([j \in 1..K |-> IF i < j THEN z[j] ELSE 0], K)]
    IN SumTo([i \in 1..K |-> h[i] * z[i]], K) + J * SumTo(pairs, K)

IsingInit ==
    /\ \E v \in QaoaVariants, K \in 0..MaxQubits, A \in 1..MaxPenalty :
       \E costs \in [1..K -> 0..MaxIsingCost] :
          calc = [op |-> "ising", variant |-> v, costs |-> costs, A |-> A,
                  done |-> FALSE, h |-> <<>>, J |-> 0]
    /\ Others

\* h, J = _compute_h_coeffs(costs, A), the same arithmetic in the three variants
h_coeffs ==
    /\ calc.op = "ising" /\ ~calc.done
    /\ LET r == compute_h_coeffs(calc.costs, calc.A)
       IN calc' = [calc EXCEPT !.done = TRUE, !.h = r.h, !.J = r.J]
    /\ UNCHANGED allButCalc

IsingNext == h_coeffs

IsingSpec == IsingInit /\ [][IsingNext]_vars

----------------------------------------------------------------------------
(* Services: state that outlives one call.                                  *)

\* every variable but proc
allButProc == <<pc, run, veh_types, veh_caps, demand_by_loc, prio_by_loc, ranking_by_loc,
                constraints, assignments, input, vi, changed, change_loop, total_dist, now,
                unassigned, capped, http, calc>>

Rest == EngineOff /\ http = IdleHttp /\ calc = IdleCalc

\* Bound of the cache specification: the clusters processed.
MaxClusters == 3

\* Cost vectors of the locations of a cluster; the first two differ by a third of
\* 10^-6 in one entry.
QaoaCosts == {<<3, 6>>, <<3, 7>>, <<6, 3>>}

\* the service's defaults qaoa_penalty = 2.0 and qaoa_p = 1
KeyOf(costs) == get_circuit_cache_key(costs, 6, 1)

\* What one assignment did: whether circuits were executed, what it returned, and the
\* cache entry of its key before and after.
Assignment(costs, export, executed, returned, before, after) ==
    [key |-> KeyOf(costs), export |-> export, executed |-> executed,
     returned |-> returned, stored |-> load_cached_result(before, KeyOf(costs)),
     stored_after |-> load_cached_result(after, KeyOf(costs))]

\* run_qaoa_assignment: the cached result unless save_circuit, else execute and save;
\* fresh is what the execution yields.  The value is <<files, assignment>>.
run_qaoa_assignment(files, costs, save_circuit, fresh) ==
    LET cached_result == load_cached_result(files, KeyOf(costs))
    IN IF cached_result # None /\ ~save_circuit
       THEN <<files, Assignment(costs, save_circuit, FALSE, cached_result, files, files)>>
       ELSE LET saved == save_cached_result(files, KeyOf(costs), fresh, TRUE)
            IN <<saved, Assignment(costs, save_circuit, TRUE, fresh, files, saved)>>

\* run_qaoa_assignment_batch: every cost vector is executed; the cache is neither read
\* nor written.
run_qaoa_assignment_batch(files, costs_list, fresh) ==
    [j \in 1..Len(costs_list) |->
        Assignment(costs_list[j], FALSE, TRUE, fresh[j], files, files)]

CloudInit ==
    /\ proc = [svc |-> "cloud", files |-> NoFiles, clusters |-> 0, last |-> <<>>]
    /\ Rest

\* optimize_vrp, one cluster: the first location of the first cluster goes through
\* run_qaoa_assignment when circuit export is requested, everything else through the
\* batch function.
qaoa_cluster ==
    /\ proc.svc = "cloud" /\ proc.clusters < MaxClusters
    /\ \E save_circuit \in BOOLEAN, cluster_idx \in {0, 1}, n \in 1..2 :
       \E costs_list \in [1..n -> QaoaCosts], fresh \in [1..n -> QaoaResults] :
          LET save_circ == save_circuit /\ cluster_idx = 0
              first == run_qaoa_assignment(proc.files, costs_list[1], TRUE, fresh[1])
          IN proc' = IF save_circ
                     THEN [proc EXCEPT
                             !.files = first[1],
                             !.clusters = @ + 1,
                             !.last = <<first[2]>> \o
                                      run_qaoa_assignment_batch(first[1], Tail(costs_list),
                                                                Tail(fresh))]
                     ELSE [proc EXCEPT
                             !.clusters = @ + 1,
                             !.last = run_qaoa_assignment_batch(proc.files, costs_list,
                                                                fresh)]
    /\ UNCHANGED allButProc

CloudNext == qaoa_cluster

CloudSpec == CloudInit /\ [][CloudNext]_vars

\* /optimize-batch of the accelerated service.

\* len(requests) > 10 is refused
BatchLimit == 10

\* Bounds of the batch specification: the requests of a batch and max_concurrent.
MaxBatch == 3
MaxConcurrent == 2

\* What optimize_vrp does with one request: it returns a result, returns an error
\* result, raises, or does not finish within the 300 seconds of as_completed.
TaskOutcomes == {"success", "error", "raises", "slow"}

Raised == [raised |-> TRUE]

\* a worker body that lets the exception out of the thread
optimize_single_uncaught(idx, outcome) ==
    CASE outcome = "success" -> [status |-> "success", of |-> idx]
      [] outcome = "error" -> [status |-> "error", of |-> idx]
      [] OTHER -> Raised

\* optimize_single: (idx, result); an exception becomes an error entry.  The field
\* `of` names the request the entry was computed from.
optimize_single(idx, outcome) ==
    CASE outcome = "success" -> [status |-> "success", of |-> idx]
      [] outcome = "error" -> [status |-> "error", of |-> idx]
      [] OTHER -> [status |-> "error", of |-> idx]

\* a thread pool of max_concurrent workers takes the requests in order: request i has
\* started once fewer than max_concurrent earlier requests are unfinished
Started(b, i) ==
    Cardinality({j \in b.pending : j < i}) < b.max_concurrent

BatchReply(code, body) == [code |-> code, body |-> body]

NoBody == [none |-> TRUE]

BatchCall(n, outcomes, k) ==
    [svc |-> "batch", bpc |-> "posted", n |-> n, outcomes |-> outcomes,
     max_concurrent |-> k, pending |-> {}, results_dict |-> <<>>,
     reply |-> BatchReply(0, NoBody)]

\* a batch within the limit with any outcome per request, or one request too many
BatchInit ==
    /\ \E k \in 1..MaxConcurrent :
          \/ \E n \in 0..MaxBatch : \E o \in [0..(n - 1) -> TaskOutcomes] :
                proc = BatchCall(n, o, k)
          \/ proc = BatchCall(BatchLimit + 1,
                              [i \in 0..BatchLimit |-> "success"], k)
    /\ Rest

\* lines 331-332
batch_reject ==
    /\ proc.svc = "batch" /\ proc.bpc = "posted" /\ proc.n > BatchLimit
    /\ proc' = [proc EXCEPT !.bpc = "done", !.reply = BatchReply(400, NoBody)]
    /\ UNCHANGED allButProc

\* lines 358-361: every request is submitted
batch_submit ==
    /\ proc.svc = "batch" /\ proc.bpc = "posted" /\ proc.n <= BatchLimit
    /\ proc' = [proc EXCEPT !.bpc = "running", !.pending = 0..(proc.n - 1)]
    /\ UNCHANGED allButProc

\* lines 365-367: a future completes and as_completed hands it over; future.result()
\* raises what the worker raised, which ends the batch with 500
batch_collect ==
    /\ proc.svc = "batch" /\ proc.bpc = "running"
    /\ \E i \in proc.pending :
          /\ Started(proc, i) /\ proc.outcomes[i] # "slow"
          /\ LET result == optimize_single(i, proc.outcomes[i])
             IN proc' = IF result = Raised
                        THEN [proc EXCEPT !.bpc = "done",
                                          !.reply = BatchReply(500, NoBody)]
                        ELSE [proc EXCEPT
                                !.pending = @ \ {i},
                                !.results_dict =
                                    [j \in DOMAIN proc.results_dict \cup {i} |->
                                        IF j = i THEN result ELSE proc.results_dict[j]]]
    /\ UNCHANGED allButProc

\* lines 365, 372-374: as_completed times out when the futures left cannot complete in time
batch_timeout ==
    /\ proc.svc = "batch" /\ proc.bpc = "running" /\ proc.pending # {}
    /\ \A i \in proc.pending : Started(proc, i) => proc.outcomes[i] = "slow"
    /\ proc' = [proc EXCEPT !.bpc = "done", !.reply = BatchReply(500, NoBody)]
    /\ UNCHANGED allButProc

\* lines 370-396: the results in request order and the summary; the average time per
\* request divides by len(requests)
batch_return ==
    /\ proc.svc = "batch" /\ proc.bpc = "running" /\ proc.pending = {}
    /\ LET results == [j \in 1..proc.n |-> proc.results_dict[j - 1]]
           successful == Cardinality({j \in 1..proc.n : results[j].status = "success"})
           failed == Len(results) - successful
       IN proc' = [proc EXCEPT
                     !.bpc = "done",
                     !.reply = IF proc.n = 0
                               THEN BatchReply(500, NoBody)
                               ELSE BatchReply(200,
                                       [total_requests |-> proc.n,
                                        successful |-> successful,
                                        failed |-> failed,
                                        individual_results |-> results])]
    /\ UNCHANGED allButProc

BatchNext ==
    batch_reject \/ batch_submit \/ batch_collect \/ batch_timeout \/ batch_return

BatchSpec == BatchInit /\ [][BatchNext]_vars

\* The parallel QAOA path of the accelerated orchestrator.

\* Bound of the parallel specification: the locations of a request.
MaxParLocs == 2

\* depot distances of the vehicles, by index, for one location
DistanceChoices ==
    {(0 :> 1) @@ (1 :> 2) @@ (2 :> 3), (0 :> 2) @@ (1 :> 1) @@ (2 :> 1),
     (0 :> 3) @@ (1 :> 3) @@ (2 :> 1)}

\* counts_idx as run_qaoa_assignment returns it
QaoaCounts ==
    {(1 :> 2), (0 :> 1) @@ (2 :> 1), (0 :> 1) @@ (1 :> 2) @@ (2 :> 1)}

\* the run of one task: it returns, its QAOA call raises, or it is not done 15 seconds
\* after the collector starts waiting for it
LocationOutcomes == {"success", "exception", "timeout"}

VehicleIdsOf(order_idx) == [j \in 1..Len(order_idx) |-> Vehicles[order_idx[j] + 1]]

\* a fallback that ranks the farthest vehicle first
distance_ranking_descending(costs) ==
    VehicleIdsOf(SortedByReverse(IndexRange(Len(Vehicles)), costs))

\* sorted(range(len(vehicle_ids)), key=lambda i: costs[i]) as vehicle ids
distance_ranking(costs) ==
    VehicleIdsOf(SortedBy(IndexRange(Len(Vehicles)), costs))

\* _process_location_qaoa: the ranking by counts, or, in its except branch, by distance
process_location_qaoa(loc) ==
    IF loc.outcome = "exception"
    THEN distance_ranking(loc.costs)
    ELSE IF DOMAIN loc.counts # {}
         THEN VehicleIdsOf(SortedByReverse(IndexRange(Len(Vehicles)),
                                           CountOrZero(loc.counts, Len(Vehicles))))
         ELSE distance_ranking(loc.costs)

ParallelCall(locs) ==
    [svc |-> "parallel", ppc |-> "start", locs |-> locs,
     task |-> [j \in 1..Len(locs) |-> "none"],
     submitted |-> [j \in 1..Len(locs) |-> 0],
     i |-> 1, ranking_by_loc_id |-> <<>>, status |-> "running"]

ParallelInit ==
    /\ \E n \in 0..MaxParLocs :
       \E locs \in [1..n -> [outcome : LocationOutcomes, counts : QaoaCounts,
                             costs : DistanceChoices]] :
          proc = ParallelCall(locs)
    /\ Rest

\* line 152: one task per location
par_submit ==
    /\ proc.svc = "parallel" /\ proc.ppc = "start"
    /\ proc' = [proc EXCEPT !.ppc = "collect",
                            !.task = [j \in DOMAIN proc.task |-> "running"],
                            !.submitted = [j \in DOMAIN proc.submitted |->
                                              proc.submitted[j] + 1]]
    /\ UNCHANGED allButProc

\* a worker thread finishes its task; a task that times out finishes after the
\* collector has given up on it
par_task_done ==
    /\ proc.svc = "parallel" /\ proc.ppc = "collect"
    /\ \E j \in DOMAIN proc.task :
          /\ proc.task[j] = "running"
          /\ proc.locs[j].outcome = "timeout" => j < proc.i
          /\ proc' = [proc EXCEPT !.task[j] = "finished"]
    /\ UNCHANGED allButProc

\* lines 154-182: future.result(timeout=15) of the next location, or the fallback
par_collect ==
    /\ proc.svc = "parallel" /\ proc.ppc = "collect" /\ proc.i <= Len(proc.locs)
    /\ LET loc == proc.locs[proc.i]
           ranking == IF proc.task[proc.i] = "finished"
                      THEN process_location_qaoa(loc)
                      ELSE distance_ranking(loc.costs)
       IN /\ proc.task[proc.i] = "finished" \/ loc.outcome = "timeout"
          /\ proc' = [proc EXCEPT
                        !.i = @ + 1,
                        !.ranking_by_loc_id =
                            [j \in DOMAIN proc.ranking_by_loc_id \cup {proc.i} |->
                                IF j = proc.i THEN ranking
                                ELSE proc.ranking_by_loc_id[j]]]
    /\ UNCHANGED allButProc

\* the with block ends when every worker has finished; the call goes on
par_exit ==
    /\ proc.svc = "parallel" /\ proc.ppc = "collect" /\ proc.i > Len(proc.locs)
    /\ \A j \in DOMAIN proc.task : proc.task[j] = "finished"
    /\ proc' = [proc EXCEPT !.ppc = "done", !.status = "success"]
    /\ UNCHANGED allButProc

ParallelNext == par_submit \/ par_task_done \/ par_collect \/ par_exit

ParallelSpec == ParallelInit /\ [][ParallelNext]_vars

\* /generate-test-data of the cloud service.  Its handler is a plain def, so the
\* framework runs concurrent requests in threads of one process, which share the
\* random module's generator.

\* random.seed(42)
Seed == 42

\* Bound of the test-data specification: the values a call draws.
MaxDraws == 3

Threads == {1, 2}

\* The generator: a state, stepped by every draw; the draw returns the new state.
\* A full-period congruential generator stands for the Mersenne Twister.
RngStates == 0..15
NextRandom(s) == (5 * s + 3) % 16
Seeded(seed) == seed % 16

\* the dataset of a call that nobody interleaves with
RECURSIVE DrawsFrom(_, _)
DrawsFrom(s, n) ==
    IF n = 0 THEN <<>> ELSE <<NextRandom(s)>> \o DrawsFrom(NextRandom(s), n - 1)

Reference(n) == DrawsFrom(Seeded(Seed), n)

GenInit ==
    /\ \E r \in RngStates, n \in [Threads -> 1..MaxDraws] :
          proc = [svc |-> "gen", rng |-> r,
                  req |-> [t \in Threads |->
                             [gpc |-> "called", n |-> n[t], data |-> <<>>]]]
    /\ Rest

\* line 189: random.seed(42)
gen_seed(t) ==
    /\ proc.svc = "gen" /\ proc.req[t].gpc = "called"
    /\ proc' = [proc EXCEPT !.rng = Seeded(Seed), !.req[t].gpc = "seeded"]
    /\ UNCHANGED allButProc

\* lines 198-241: one call of random.uniform / choice / randint
gen_draw(t) ==
    /\ proc.svc = "gen" /\ proc.req[t].gpc = "seeded"
    /\ Len(proc.req[t].data) < proc.req[t].n
    /\ proc' = [proc EXCEPT !.rng = NextRandom(proc.rng),
                            !.req[t].data = Append(@, NextRandom(proc.rng))]
    /\ UNCHANGED allButProc

\* line 261: return test_data
gen_return(t) ==
    /\ proc.svc = "gen" /\ proc.req[t].gpc = "seeded"
    /\ Len(proc.req[t].data) = proc.req[t].n
    /\ proc' = [proc EXCEPT !.req[t].gpc = "returned"]
    /\ UNCHANGED allButProc

GenNext == \E t \in Threads : gen_seed(t) \/ gen_draw(t) \/ gen_return(t)

GenSpec == GenInit /\ [][GenNext]_vars

----------------------------------------------------------------------------
(* The QAOA circuits of the three variants (qaoa_assign.py): a circuit is   *)
(* the sequence of its gates, each recorded by its kind and the qubits it   *)
(* acts on, qubits numbered from 0.  Costs and the penalty A are in units   *)
(* of 1e-7, so that the thresholds under which a variant skips a rotation   *)
(* are whole numbers; h and J are in halves of that unit, as _compute_h_    *)
(* coeffs is modelled above.                                                *)

MaxCircuitQubits == 7
MaxLayers == 2

\* cost 1.0 and the API's default qaoa_penalty 2.0, in units of 1e-7
UnitCost == 10000000
DefaultPenalty == 20000000
\* the penalties drawn: 1e-7 and the default
Penalties == {1, DefaultPenalty}
\* threshold = 1e-6 of the accelerated variant, in halves of 1e-7
AerThreshold == 20
\* max_pairs = min(15, ...) of the accelerated variant
MaxPairs == 15

Gate(kind, on) == [gate |-> kind, on |-> on]

\* for i in range(K): for j in range(i + 1, K), from (i, j) on
RECURSIVE PairsFrom(_, _, _)
PairsFrom(i, j, K) ==
    IF i >= K - 1 THEN <<>>
    ELSE IF j >= K THEN PairsFrom(i + 1, i + 2, K)
    ELSE <<Gate("zz", <<i, j>>)>> \o PairsFrom(i, j + 1, K)

Abs(x) == IF x < 0 THEN 0 - x ELSE x

\* The rotation of qubit i is applied: always in the baseline, above 1e-6 in the
\* accelerated variant, above 1e-10 (any non-zero multiple of the unit) in the cloud's.
RotationApplied(variant, x) ==
    CASE variant = "baseline" -> TRUE
      [] variant = "accelerated" -> Abs(x) > AerThreshold
      [] variant = "cloud" -> x # 0

\* The pairwise part is applied: abs(J) > 0, > 1e-6, > 1e-10.
InteractionApplied(variant, K, J) ==
    K >= 2 /\ CASE variant = "baseline" -> J # 0
                [] variant = "accelerated" -> Abs(J) > AerThreshold
                [] variant = "cloud" -> J # 0

\* The cost layer with an interaction on every pair in each variant.
apply_cost_layer_uncapped(variant, K, h, J) ==
    SelectSeq([i \in 1..K |-> Gate("rz", <<i - 1>>)],
              LAMBDA g : RotationApplied(variant, h[g.on[1] + 1]))
    \o (IF InteractionApplied(variant, K, J) THEN PairsFrom(0, 1, K) ELSE <<>>)

\* _apply_cost_layer: the Z rotations, then the pairwise interactions; the accelerated
\* variant stops after max_pairs of them.
apply_cost_layer(variant, K, h, J) ==
    LET pairs == PairsFrom(0, 1, K)
        max_pairs == IF Len(pairs) < MaxPairs THEN Len(pairs) ELSE MaxPairs
    IN SelectSeq([i \in 1..K |-> Gate("rz", <<i - 1>>)],
                 LAMBDA g : RotationApplied(variant, h[g.on[1] + 1]))
       \o (IF ~InteractionApplied(variant, K, J) THEN <<>>
           ELSE IF variant = "accelerated" THEN SubSeq(pairs, 1, max_pairs)
           ELSE pairs)

\* _apply_mixer_layer
apply_mixer_layer(K) == [i \in 1..K |-> Gate("rx", <<i - 1>>)]

Hadamards(K) == [i \in 1..K |-> Gate("h", <<i - 1>>)]
MeasureAll(K) == Gate("measure", [i \in 1..K |-> i - 1])

RECURSIVE Layers(_, _, _, _, _)
Layers(variant, K, h, J, p) ==
    IF p = 0 THEN <<>>
    ELSE apply_cost_layer(variant, K, h, J) \o apply_mixer_layer(K)
            \o Layers(variant, K, h, J, p - 1)

\* build_qaoa_circuit(costs, [g] * p, [b] * p, A) of the three variants
build_qaoa_circuit(variant, costs, p, A) ==
    LET K == Len(costs)
        c == compute_h_coeffs(costs, A)
    IN Hadamards(K) \o Layers(variant, K, c.h, c.J, p) \o <<MeasureAll(K)>>

\* build_qaoa_circuit_fast(costs, gamma, beta, A) of the accelerated variant
build_qaoa_circuit_fast(costs, A) ==
    LET K == Len(costs)
        c == compute_h_coeffs(costs, A)
    IN Hadamards(K) \o apply_cost_layer("accelerated", K, c.h, c.J)
          \o apply_mixer_layer(K) \o <<MeasureAll(K)>>

\* The circuit a grid trial executes: run_qaoa_assignment builds it with
\* build_qaoa_circuit in the baseline and the cloud variant, _execute_single_parameter
\* with build_qaoa_circuit_fast in the accelerated one.
TrialCircuit(variant, costs, p, A) ==
    IF variant = "accelerated" THEN build_qaoa_circuit_fast(costs, A)
    ELSE build_qaoa_circuit(variant, costs, p, A)

\* A request: K vehicles, the costs normalised to 0..1 with at most one at 0, the
\* requested layer count and penalty.
CircuitInit ==
    /\ \E v \in QaoaVariants, K \in 1..MaxCircuitQubits, p \in 1..MaxLayers, A \in Penalties :
       \E z \in 0..K :
          calc = [op |-> "circuit", variant |-> v,
                  costs |-> [i \in 1..K |-> IF i = z THEN 0 ELSE UnitCost],
                  p |-> p, A |-> A, done |-> FALSE, circuit |-> <<>>]
    /\ Others

\* One trial of the grid search builds its circuit.
build_trial_circuit ==
    /\ calc.op = "circuit" /\ ~calc.done
    /\ calc' = [calc EXCEPT !.done = TRUE,
                            !.circuit = TrialCircuit(calc.variant, calc.costs, calc.p, calc.A)]
    /\ UNCHANGED allButCalc

CircuitNext == build_trial_circuit

CircuitSpec == CircuitInit /\ [][CircuitNext]_vars

----------------------------------------------------------------------------
(* The grid search and the extraction of run_qaoa_assignment in the three   *)
(* variants, for two vehicles.  A trial's samples are a map from bit tuples *)
(* (qubit 0 first, as the code reads them after reversing the bit string)   *)
(* to counts; what the simulator or the backend returns is drawn.  Every    *)
(* trial of a call has the same shot count, so energies are compared as the *)
(* count-weighted sums, before the division by shots, and in halves (the    *)
(* cloud variant adds 0.5 A).  The cloud call is one that missed its cache. *)

MaxGrid == 7
MaxPlainGrid == 2
MaxShots == 101

\* shots: int = Query(800, ge=100, le=5000) of /optimize
MinShots == 100
\* grid = grid[:6] and grid[:3] of the accelerated variant; float("inf")
GridCap == 6
SequentialTrials == 3
Infinity == 1000000
\* the 1e-6 added to a cost before it is inverted, costs being in units of 1e-6 here
CostScale == 1000000

CostPairs == {<<1, 2>>, <<2, 1>>}
BitTuples(K) == [1..K -> {0, 1}]
OnesOf(x) == {i \in 1..Len(x) : x[i] = 1}
NoCounts == [x \in {} |-> 0]

\* What one trial gives: samples, an exception, or (cloud) a result whose data has
\* no attribute "meas", which depends on the name the runtime gives the classical
\* register of QuantumCircuit(K, K).
Sampled(counts) == [kind |-> "counts", counts |-> counts]
AllOn(x, shots) == [y \in {x} |-> shots]
\* all samples without a set bit but one, which has both bits set
Stray(shots) == [y \in {<<0, 0>>, <<1, 1>>} |-> IF y = <<1, 1>> THEN 1 ELSE shots - 1]

TrialOutcomes(variant, shots) ==
    {Sampled(AllOn(<<1, 0>>, shots)), Sampled(AllOn(<<0, 1>>, shots)),
     Sampled(AllOn(<<0, 0>>, shots)), Sampled(Stray(shots)), [kind |-> "error"]}
    \cup (IF variant = "cloud" THEN {[kind |-> "nodata"]} ELSE {})

\* _bit_cost in halves: the cloud variant adds 2 A for no set bit, 0.5 A for several.
bit_cost_of(variant, x, costs, A) ==
    2 * bit_cost(x, costs, A)
      + (IF variant # "cloud" THEN 0
         ELSE IF OnesOf(x) = {} THEN 4 * A
         ELSE IF Cardinality(OnesOf(x)) > 1 THEN A
         ELSE 0)

RECURSIVE SumSet(_, _)
SumSet(S, f) ==
    IF S = {} THEN 0
    ELSE LET x == CHOOSE y \in S : TRUE IN f[x] + SumSet(S \ {x}, f)

\* _energy_from_counts, times shots
energy_from_counts(variant, counts, costs, A) ==
    SumSet(DOMAIN counts,
           [x \in DOMAIN counts |-> bit_cost_of(variant, x, costs, A) * counts[x]])

\* the cloud's stand-in for a result without "meas": shots // min(2**K, 100) on each
\* of the first min(2**K, 100) bit strings (all of them for two qubits)
UniformCounts(K, shots) == [x \in BitTuples(K) |-> shots \div Cardinality(BitTuples(K))]

\* energy and counts of one trial as the loop sees them
TrialResult(variant, o, costs, A, shots) ==
    IF o.kind = "counts"
    THEN [energy |-> energy_from_counts(variant, o.counts, costs, A), counts |-> o.counts]
    ELSE IF o.kind = "nodata"
    THEN [energy |-> energy_from_counts(variant, UniformCounts(Len(costs), shots), costs, A),
          counts |-> UniformCounts(Len(costs), shots)]
    ELSE [energy |-> Infinity, counts |-> NoCounts]

Minimum(a, b) == IF a < b THEN a ELSE b
SetMax(S) == CHOOSE x \in S : \A y \in S : y <= x

\* The trials whose result the selection loop compares.  The accelerated variant
\* submits every pair of grid[:6] to its pool, but as_completed is not imported
\* (line 4 imports ThreadPoolExecutor only): the collecting loop raises NameError,
\* which the except of line 246 turns into fresh sequential runs of grid[:3].
Evaluated(variant, n) ==
    IF variant = "accelerated" THEN 1..Minimum(SequentialTrials, Minimum(n, GridCap))
    ELSE 1..n

\* if E < best_E (and counts, in the accelerated variant): the loop over the trials
\* in grid order, from trial i on
RECURSIVE select_best(_, _, _, _, _, _, _)
select_best(variant, outcomes, last, costs, A, shots, best) ==
    LET i == best.next
        r == TrialResult(variant, outcomes[i], costs, A, shots)
        better == r.energy < best.energy
                     /\ (variant = "accelerated" => r.counts # NoCounts)
    IN IF i > last THEN best
       ELSE select_best(variant, outcomes, last, costs, A, shots,
                        IF better THEN [next |-> i + 1, energy |-> r.energy,
                                        counts |-> r.counts, pair |-> i]
                        ELSE [best EXCEPT !.next = i + 1])

\* np.argmin(costs) and min(ones, key=costs): the first index with the least cost
ArgMin(costs, among) ==
    CHOOSE i \in among : \A j \in among : costs[i] < costs[j] \/ (costs[i] = costs[j] /\ i <= j)

\* int(count * weight) with weight = (1 / (c_i + 1e-6)) / sum_j (1 / (c_j + 1e-6)),
\* for two vehicles: (c_other + 1e-6) / (c_0 + c_1 + 2e-6)
InverseCostShare(count, costs, i) ==
    (count * (costs[3 - i] * CostScale + 1))
        \div ((costs[1] + costs[2]) * CostScale + 2)

\* _classical_fallback of the accelerated variant: int(shots * 0.7) on the cheapest
\* index, the rest spread, the rounding loss added to the cheapest.  It writes the 1
\* at place min_idx of the bit string, which the extraction reads reversed: the
\* tuple has its 1 at place K + 1 - i for the share of index i.
classical_fallback(costs, shots) ==
    LET K == Len(costs)
        min_idx == ArgMin(costs, 1..K)
        share == [i \in 1..K |-> IF i = min_idx THEN (shots * 7) \div 10
                                 ELSE (shots * 3) \div (10 * (IF K > 1 THEN K - 1 ELSE 1))]
        total == SumSet(1..K, share)
    IN [x \in {[j \in 1..K |-> IF j = K + 1 - i THEN 1 ELSE 0] : i \in 1..K} |->
            LET i == K + 1 - (CHOOSE j \in 1..K : x[j] = 1)
            IN share[i] + (IF i = min_idx /\ total < shots THEN shots - total ELSE 0)]

\* Whether the sample x creates or adds to key i of counts_by_index, and how much.
Touches(variant, x, costs, i) ==
    LET ones == OnesOf(x)
    IN CASE variant = "baseline" -> ones = {i}
         [] variant = "accelerated" -> i \in ones
         [] variant = "cloud" ->
               \/ ones = {i}
               \/ ones = {}
               \/ Cardinality(ones) > 1 /\ i = ArgMin(costs, ones)

Weight(variant, x, count, costs, i) ==
    LET ones == OnesOf(x)
    IN IF ~Touches(variant, x, costs, i) THEN 0
       ELSE IF variant = "accelerated" THEN count \div Cardinality(ones)
       ELSE IF variant = "cloud" /\ ones = {} THEN InverseCostShare(count, costs, i)
       ELSE count

\* the aggregation loop over best_counts, keys being the vehicle positions 1..K
Aggregated(variant, counts, costs) ==
    [i \in {j \in 1..Len(costs) : \E x \in DOMAIN counts : Touches(variant, x, costs, j)} |->
        SumSet(DOMAIN counts,
               [x \in DOMAIN counts |-> Weight(variant, x, counts[x], costs, i)])]

\* counts_by_index with the variant's fallback: argmin(costs) with all shots when the
\* map is empty; in the cloud variant, when it is empty or sums to 0, every index
\* with max(1, int(shots * weight)).
extract_counts(variant, best_counts, costs, shots) ==
    LET agg == Aggregated(variant, best_counts, costs)
    IN IF variant = "cloud"
       THEN IF DOMAIN agg = {} \/ SumSet(DOMAIN agg, agg) = 0
            THEN [i \in 1..Len(costs) |->
                     IF InverseCostShare(shots, costs, i) > 1
                     THEN InverseCostShare(shots, costs, i) ELSE 1]
            ELSE agg
       ELSE IF DOMAIN agg = {}
            THEN [i \in {ArgMin(costs, 1..Len(costs))} |-> shots]
            ELSE agg

Raises(variant, outcomes) ==
    variant # "accelerated" /\ \E i \in 1..Len(outcomes) : outcomes[i].kind = "error"

\* run_qaoa_assignment from the grid search on: the selection, the accelerated
\* variant's classical fallback when nothing was selected, and the extraction.  In the
\* baseline and the cloud variant an exception of a trial leaves the call.
qaoa_search(variant, costs, A, shots, outcomes) ==
    LET best == select_best(variant, outcomes,
                            SetMax(Evaluated(variant, Len(outcomes)) \cup {0}),
                            costs, A, shots,
                            [next |-> 1, energy |-> Infinity, counts |-> NoCounts, pair |-> 0])
        best_counts == IF variant = "accelerated"
                          /\ (best.counts = NoCounts \/ best.energy = Infinity)
                       THEN classical_fallback(costs, shots)
                       ELSE best.counts
    IN IF Raises(variant, outcomes)
       THEN [raised |-> TRUE, best_pair |-> 0, best_counts |-> NoCounts,
             counts_by_index |-> NoCounts]
       ELSE [raised |-> FALSE, best_pair |-> best.pair, best_counts |-> best_counts,
             counts_by_index |-> extract_counts(variant, best_counts, costs, shots)]

\* A call: two vehicles, a grid of n pairs (longer than the cap for the accelerated
\* variant), MinShots..MaxShots shots, and what each trial gives.  For a pair the
\* accelerated variant runs twice, outcomes holds the sequential run.
SearchInit ==
    /\ \E v \in QaoaVariants, costs \in CostPairs, shots \in MinShots..MaxShots :
       \E n \in 1..(IF v = "accelerated" THEN MaxGrid ELSE MaxPlainGrid) :
       \E outcomes \in [1..n -> TrialOutcomes(v, shots)] :
          calc = [op |-> "search", variant |-> v, costs |-> costs, A |-> MaxPenalty,
                  shots |-> shots, outcomes |-> outcomes, done |-> FALSE,
                  result |-> [raised |-> FALSE, best_pair |-> 0, best_counts |-> NoCounts,
                              counts_by_index |-> NoCounts]]
    /\ Others

grid_search ==
    /\ calc.op = "search" /\ ~calc.done
    /\ calc' = [calc EXCEPT !.done = TRUE,
                            !.result = qaoa_search(calc.variant, calc.costs, calc.A,
                                                   calc.shots, calc.outcomes)]
    /\ UNCHANGED allButCalc

SearchNext == grid_search

SearchSpec == SearchInit /\ [][SearchNext]_vars

----------------------------------------------------------------------------
(* Properties of the engine.                                               *)

Count(s, x) == Cardinality({k \in 1..Len(s) : s[k] = x})
Occurrences(a, l) == SumOver(KeysOf(a), [v \in DOMAIN a |-> Count(a[v], l)])
Pos(s, x) == CHOOSE k \in 1..Len(s) : s[k] = x
Returned == pc = "done"
\* The call returned and the budget had not elapsed at any reading of the clock.
ReturnedInTime == pc = "done" /\ now < TIMEOUT_SECONDS
HoldsEachOnce(a) == \A l \in LocSet : Occurrences(a, l) = 1
Disallowed == {v \in VehSet : ~IsAllowed(v)}
AllowedSet == {v \in VehSet : IsAllowed(v)}

\* C1: when a call whose input held every location id exactly once returns, each
\* location id is in exactly one vehicle's list and not in unassigned, or in no list
\* and in unassigned; none is in two lists, twice in a list, or in neither.
C1_Partition ==
    (Returned /\ HoldsEachOnce(input)) =>
        \A l \in LocSet :
            \/ Occurrences(assignments, l) = 1 /\ l \notin unassigned
            \/ Occurrences(assignments, l) = 0 /\ l \in unassigned

\* Reached: the call of optimize_vrp returned after moving locations, one of them dropped.
C1_Witness ==
    /\ Returned /\ run = 1
    /\ unassigned # {}
    /\ \E v \in VehSet : assignments[v] # <<>> /\ assignments[v] # input[v]

\* C2: from the initial assignment to the return, the keys of the assignment map are
\* exactly the input vehicle ids.
C2_KeysAreVehicleIds ==
    pc # "entry" => DOMAIN assignments = VehSet

\* Reached: a returned map with a vehicle of a disallowed type and an allowed vehicle
\* left with no locations.
C2_Witness ==
    /\ Returned /\ run = 1
    /\ Disallowed # {}
    /\ \E v \in AllowedSet : assignments[v] = <<>> /\ input[v] # <<>>
    /\ DOMAIN assignments = VehSet

\* The body lacks a required top-level field.
LacksField(req) == "absent" \in {req.locations, req.vehicles, req.depots}

\* C3: in each of the three HTTP services, a POST /optimize whose body lacks
\* locations, vehicles or depots is answered with a 4xx status and optimize_vrp is
\* not invoked for it.
C3_MissingFieldRejected ==
    (http.hpc = "responded" /\ http.caller \in Services /\ LacksField(http)) =>
        (http.status \in 400..499 /\ ~http.orch_called)

\* C4: in each of the four orchestrator variants, an exception raised while
\* optimize_vrp runs is caught inside it: the call returns a payload with
\* status "error", a message and meta, and nothing propagates to the caller.
C4_ExceptionsCaught ==
    (http.hpc = "responded" /\ http.orch_called /\ http.raised_at # "none") =>
        (~http.escaped /\ http.payload = ErrorPayload)

\* C5: once the type-eligibility phase has run, every vehicle of a disallowed type has
\* an empty list, through every later phase and at the return.
C5_DisallowedStayEmpty ==
    pc \notin {"entry", "type"} =>
        \A v \in Disallowed : Get(assignments, v) = <<>>

\* Reached: a distance/time pass has moved locations while a vehicle of a disallowed
\* type, which held locations on entry, is empty.
C5_Witness ==
    /\ pc = "dist_head" /\ change_loop /\ DOMAIN total_dist # {}
    /\ \E v \in Disallowed : input[v] # <<>> /\ assignments[v] = <<>>

\* The locations of `held` that a stop-cap iteration retains: max_stops of them, no
\* retained one with a higher priority number than a removed one, ties by list order.
KeepsLowest(held, kept) ==
    /\ Len(kept) = max_stops
    /\ Range(kept) \subseteq Range(held)
    /\ \A k \in Range(kept), o \in Range(held) \ Range(kept) :
          /\ prio_by_loc[k] <= prio_by_loc[o]
          /\ prio_by_loc[k] = prio_by_loc[o] => Pos(held, k) < Pos(held, o)

\* C6: with priority_handling enabled, an allowed vehicle that held more than
\* max_stops locations at its stop-cap iteration ends enforce_constraints with
\* exactly the max_stops lowest-priority-number ones of them retained (ties in their
\* previous list order); the others it held are in another list or in none.
C6_RetainedAtReturn ==
    (Returned /\ priority_handling) =>
        \A v \in DOMAIN capped :
            Len(capped[v]) > max_stops =>
                KeepsLowest(capped[v],
                            SelectSeq(Get(assignments, v), LAMBDA l : l \in Range(capped[v])))

\* C7: when enforce_constraints returns within its time budget, no allowed vehicle's
\* total assigned demand exceeds its capacity.
C7_WithinCapacityAtReturn ==
    ReturnedInTime => \A v \in AllowedSet : TotalDemand(Get(assignments, v)) <= veh_caps[v]

\* C8: when enforce_constraints returns within its time budget, every allowed
\* vehicle's estimated distance is at most max_distance_per_vehicle and its estimated
\* time (distance / 30) at most max_time_per_vehicle.
C8_WithinDistTimeAtReturn ==
    ReturnedInTime =>
        \A v \in AllowedSet :
            LET dist == SumOver(Get(assignments, v), LegKm[DepotOf[v]])
            IN dist <= max_dist /\ dist <= 30 * max_time

\* Reached: a return within the time budget of a call that found an allowed vehicle
\* over a distance or time budget after the capacity repair and moved its locations.
C8_Witness ==
    /\ ReturnedInTime /\ run = 1
    /\ \E v \in AllowedSet :
          /\ DOMAIN total_dist # {}
          /\ SumOver(input[v], LegKm[DepotOf[v]]) > max_dist
                \/ SumOver(input[v], LegKm[DepotOf[v]]) > 30 * max_time
          /\ assignments[v] # input[v]
          /\ assignments[v] # <<>>

\* ascending priority number, equal priorities in the order they had in `before`
IsStableSortOf(after, before) ==
    /\ Len(after) = Len(before)
    /\ Range(after) = Range(before)
    /\ \A i, j \in 1..Len(after) :
          i < j => /\ prio_by_loc[after[i]] <= prio_by_loc[after[j]]
                   /\ prio_by_loc[after[i]] = prio_by_loc[after[j]]
                          => Pos(before, after[i]) < Pos(before, after[j])

IsSortedByPriority(s) ==
    \A i, j \in 1..Len(s) : i < j => prio_by_loc[s[i]] <= prio_by_loc[s[j]]

\* C9 as stated: a call on an assignment within all budgets (run 2: the output of a
\* previous call) returns a map identical to its input.
C9_SecondRunIdentical ==
    (Returned /\ run = 2) => assignments = input

\* C9 amended: such a call returns a map with the same keys in which every vehicle
\* holds the same location ids, none moved or dropped; a list is in its input order
\* when priority_handling is off or the list was already in ascending priority
\* order, and otherwise is its input stably sorted by ascending priority number.
C9_SecondRunSameUpToPrioritySort ==
    (Returned /\ run = 2) =>
        /\ DOMAIN assignments = DOMAIN input
        /\ unassigned = LocSet \ Assigned(input)
        /\ \A v \in DOMAIN input :
              /\ Len(assignments[v]) = Len(input[v])
              /\ Range(assignments[v]) = Range(input[v])
              /\ (~priority_handling \/ IsSortedByPriority(input[v]))
                    => assignments[v] = input[v]
              /\ priority_handling => IsStableSortOf(assignments[v], input[v])

\* Reached: the second call returned a list in another order than it was given.
C9_Witness ==
    /\ Returned /\ run = 2
    /\ \E v \in DOMAIN input : assignments[v] # input[v]

\* C10: every call of enforce_constraints returns; a repair loop is left at its loop
\* head as soon as its last pass changed nothing or 5 seconds have elapsed; and the
\* return gives the assignment map as it stands with Unassigned computed from it.
C10_Returns ==
    /\ (pc = "type") ~> (pc = "done")
    /\ [][/\ (pc = "cap_head" /\ (~changed \/ now >= TIMEOUT_SECONDS)
                 /\ pc' # "cap_head") => pc' = "dist_head"
          /\ (pc = "dist_head" /\ (~change_loop \/ now >= TIMEOUT_SECONDS)
                 /\ pc' # "dist_head") => pc' = "final"
          /\ (pc = "final" /\ pc' = "done") =>
                 /\ assignments' = assignments
                 /\ unassigned' = LocSet \ Assigned(assignments)]_vars

\* Reached: a return after the capacity repair loop was cut short by the time budget.
C10_Witness ==
    /\ Returned /\ run = 1
    /\ now >= TIMEOUT_SECONDS
    /\ changed
    /\ \E v \in AllowedSet : TotalDemand(assignments[v]) > veh_caps[v]

----------------------------------------------------------------------------
(* Properties of the library functions.                                    *)

\* C11: the ranking built from a counts map over n vehicles is a permutation of
\* 0..n-1 (a missing index counts 0) in descending frequency, equal frequencies in
\* ascending index.
C11_RankingFromCounts ==
    (calc.op = "ranking" /\ calc.done) =>
        LET n == calc.num_trucks
            f == CountOrZero(calc.counts, n)
            o == calc.order
        IN /\ Len(o) = n
           /\ Range(o) = 0..(n - 1)
           /\ \A i, j \in 1..n :
                 i < j => \/ f[o[i]] > f[o[j]]
                          \/ f[o[i]] = f[o[j]] /\ o[i] < o[j]

\* Reached: the example's shape, 3 vehicles, index 1 the most frequent and index 2
\* missing, ranked [1, 0, 2]; and a tie between indices ranked in ascending order.
C11_Witness ==
    /\ calc.op = "ranking" /\ calc.done /\ calc.num_trucks = 3
    /\ \/ /\ DOMAIN calc.counts = {0, 1} /\ calc.counts[0] < calc.counts[1]
          /\ calc.order = <<1, 0, 2>>
       \/ /\ DOMAIN calc.counts = {0, 2} /\ calc.counts[0] = calc.counts[2]
          /\ calc.order = <<0, 2, 1>>

\* C13: in the cloud variant an assignment whose key is stored returns the stored result
\* without executing, unless circuit export was requested for it, in which case it
\* executes and overwrites the entry; and every executed assignment leaves its result
\* stored under its key.
C13_ServedFromCacheAndStored ==
    proc.svc = "cloud" =>
        \A j \in 1..Len(proc.last) :
            LET a == proc.last[j]
            IN /\ (a.stored # None /\ ~a.export) =>
                      (~a.executed /\ a.returned = a.stored)
               /\ a.export => (a.executed /\ a.stored_after = a.returned)
               /\ a.executed => a.stored_after = a.returned

RECURSIVE Flatten(_)
Flatten(ss) == IF ss = <<>> THEN <<>> ELSE Head(ss) \o Flatten(Tail(ss))

\* C12: compute_corridors terminates (each turn of its loop takes at least one
\* location off the list, so the turns taken plus the locations left never exceed the
\* input) and its corridors partition the input: every input location is in exactly one
\* corridor, none dropped, none duplicated, no corridor empty.
C12_CorridorsPartition ==
    calc.op = "corridors" =>
        /\ Len(calc.corridors) + Len(calc.unassigned) <= Len(calc.locations)
        /\ calc.done =>
              /\ calc.unassigned = <<>>
              /\ \A c \in 1..Len(calc.corridors) : calc.corridors[c] # <<>>
              /\ \A id \in LocSet :
                    Count(Flatten(calc.corridors), id) = Count(IdsOf(calc.locations), id)

\* Reached: three locations with distinct ids returned in two corridors, the second
\* location left for a corridor of its own and the third joined across the wrap at 0.
C12_Witness ==
    /\ calc.op = "corridors" /\ calc.done
    /\ IdsOf(calc.locations) = <<"l1", "l2", "l3">>
    /\ calc.corridors = <<<<"l1", "l3">>, <<"l2">>>>
    /\ calc.locations[1].b = 350 /\ calc.locations[3].b = 0

C19_IsingMatchesObjective ==
    (calc.op = "ising" /\ calc.done) =>
        LET K == Len(calc.costs)
            Bits == [1..K -> {0, 1}]
            Gap(x) == IsingValue(x, calc.h, calc.J) - 2 * bit_cost(x, calc.costs, calc.A)
        IN /\ Len(calc.h) = K
           /\ \A i \in 1..K : calc.h[i] + calc.costs[i] + calc.A * (K - 2) = 0
           /\ calc.J = calc.A
           /\ (calc.costs = <<1, 2, 3>> /\ calc.A = 2) =>
                 (calc.h = <<-3, -4, -5>> /\ calc.J = 2)
           /\ \A x \in Bits : Gap(x) = Gap([i \in 1..K |-> 0])

\* Reached: the coefficients of the example, costs [1,2,3] with A = 2.
C19_Witness ==
    /\ calc.op = "ising" /\ calc.done
    /\ calc.costs = <<1, 2, 3>> /\ calc.A = 2
    /\ calc.h = <<-3, -4, -5>> /\ calc.J = 2

----------------------------------------------------------------------------
(* Properties of the services.                                              *)

BatchDone == proc.svc = "batch" /\ proc.bpc = "done"
AllComplete == \A i \in DOMAIN proc.outcomes : proc.outcomes[i] # "slow"
Failing == {i \in DOMAIN proc.outcomes : proc.outcomes[i] \in {"error", "raises"}}

\* C15: for every batch of 0 to 10 requests whose workers all complete, in whatever
\* order, individual_results has one entry per request, entry i is the result of
\* request i, and successful + failed is the number of requests.
C15_OneEntryPerRequestInOrder ==
    (BatchDone /\ proc.n <= BatchLimit /\ AllComplete) =>
        /\ proc.reply.code = 200
        /\ Len(proc.reply.body.individual_results) = proc.n
        /\ \A j \in 1..proc.n : proc.reply.body.individual_results[j].of = j - 1
        /\ proc.reply.body.successful + proc.reply.body.failed = proc.n

\* C16: a request whose optimization raises or returns an error result yields an error
\* entry at its own position and is counted in failed, the other requests' results are
\* returned, and the batch is not answered with an error.
C16_FailureStaysInItsEntry ==
    (BatchDone /\ proc.n <= BatchLimit /\ AllComplete /\ Failing # {}) =>
        /\ proc.reply.code = 200
        /\ \A i \in DOMAIN proc.outcomes :
              LET entry == proc.reply.body.individual_results[i + 1]
              IN /\ entry.of = i
                 /\ entry.status = IF i \in Failing THEN "error" ELSE "success"
        /\ proc.reply.body.failed = Cardinality(Failing)

\* Reached: a batch answered 200 in which the first request raised, the second returned
\* an error result and the third succeeded.
C16_Witness ==
    /\ BatchDone /\ proc.reply.code = 200 /\ proc.n = 3
    /\ proc.outcomes = (0 :> "raises") @@ (1 :> "error") @@ (2 :> "success")
    /\ proc.reply.body.failed = 2

\* C17: in the parallel QAOA path, whatever each location's task does (returns, raises,
\* times out), after location processing every location has one ranking that is a
\* permutation of the vehicle ids; a location whose task raised or timed out has the
\* vehicles in ascending depot distance; no task was submitted twice; and the call is
\* not an error.
C17_EveryLocationRanked ==
    (proc.svc = "parallel" /\ proc.ppc = "done") =>
        /\ DOMAIN proc.ranking_by_loc_id = 1..Len(proc.locs)
        /\ proc.status = "success"
        /\ \A j \in 1..Len(proc.locs) :
              LET r == proc.ranking_by_loc_id[j]
                  c == proc.locs[j].costs
              IN /\ Len(r) = Len(Vehicles) /\ Range(r) = VehSet
                 /\ proc.submitted[j] = 1
                 /\ proc.locs[j].outcome \in {"exception", "timeout"} =>
                       \A a, b \in 1..Len(r) :
                          a < b => c[Pos(Vehicles, r[a]) - 1] <= c[Pos(Vehicles, r[b]) - 1]

\* Reached: two locations, the first timed out and the second raised, both ranked by
\* distance, where the counts would have ranked the first otherwise.
C17_Witness ==
    /\ proc.svc = "parallel" /\ proc.ppc = "done" /\ Len(proc.locs) = 2
    /\ proc.locs[1].outcome = "timeout" /\ proc.locs[2].outcome = "exception"
    /\ proc.locs[1].counts = (1 :> 2)
    /\ proc.ranking_by_loc_id[1] = <<"v1", "v2", "v3">>
    /\ proc.ranking_by_loc_id[2] = <<"v3", "v1", "v2">>

\* C18: requests share no mutable state but the backend handle and the disk cache, so
\* what a request returns does not depend on how it interleaves with another: a
\* /generate-test-data call returns what it returns when it is served alone.
C18_OutcomeIndependentOfInterleaving ==
    proc.svc = "gen" =>
        \A t \in Threads :
            proc.req[t].gpc = "returned" => proc.req[t].data = Reference(proc.req[t].n)

\* C20: any two /generate-test-data calls with the same parameters return equal
\* datasets, whatever else the process is serving.
C20_SameParametersSameDataset ==
    proc.svc = "gen" =>
        \A t, u \in Threads :
            (/\ proc.req[t].gpc = "returned" /\ proc.req[u].gpc = "returned"
             /\ proc.req[t].n = proc.req[u].n)
                => proc.req[t].data = proc.req[u].data

----------------------------------------------------------------------------
(* Properties of the phases of enforce_constraints.                        *)

\* choices[0] of line 65: the first vehicle of lid's ranking with an allowed type.
FirstAllowed(lid) ==
    LET choices == SelectSeq(ranking_by_loc[lid], IsAllowed)
    IN IF choices = <<>> THEN "none" ELSE choices[1]

HeldByDisallowed(a) == UNION {Range(a[v]) : v \in DOMAIN a \cap Disallowed}

\* t is s with the locations of `added` appended, each once.
IsAppended(s, t, added) ==
    /\ Len(t) = Len(s) + Cardinality(added)
    /\ SubSeq(t, 1, Len(s)) = s
    /\ {t[k] : k \in (Len(s) + 1)..Len(t)} = added

\* C21: the type-eligibility phase moves each location held by a vehicle of a
\* disallowed type to the first vehicle of that location's ranking whose type is
\* allowed, appending it to that vehicle's list; a location whose ranking has no
\* allowed vehicle is in no vehicle's list after the phase.
C21_TypePhaseMoves ==
    [][(pc = "type" /\ pc' # "type") =>
          /\ \A l \in HeldByDisallowed(assignments) :
                IF FirstAllowed(l) = "none"
                THEN l \notin Assigned(assignments')
                ELSE /\ l \in Range(assignments'[FirstAllowed(l)])
                     /\ Occurrences(assignments', l) = 1
          /\ \A t \in AllowedSet :
                IsAppended(assignments[t], assignments'[t],
                           {l \in HeldByDisallowed(assignments) : FirstAllowed(l) = t})]_vars

\* Reached: right after the phase, a location that was held by a vehicle of a
\* disallowed type is the last of the list of the third vehicle of its ranking, the
\* second being of a disallowed type too, behind what that vehicle already held.
C21_Witness ==
    /\ pc = "stops" /\ vi = 1 /\ run = 1 /\ capped = NoLists
    /\ \E l \in LocSet :
          LET order == ranking_by_loc[l]
              locs == assignments[order[3]]
          IN /\ l \in Range(input[order[1]])
             /\ ~IsAllowed(order[1]) /\ ~IsAllowed(order[2]) /\ IsAllowed(order[3])
             /\ input[order[3]] # <<>>
             /\ locs = Append(input[order[3]], l)

\* What t received in a step: the part of its list behind what it held before.
Received(before, after, t) == SubSeq(after[t], Len(before[t]) + 1, Len(after[t]))

\* descending priority number and, within equal priority, ascending demand
InHandOverOrder(s) ==
    \A i, j \in 1..Len(s) :
        i < j => \/ prio_by_loc[s[i]] > prio_by_loc[s[j]]
                 \/ /\ prio_by_loc[s[i]] = prio_by_loc[s[j]]
                    /\ demand_by_loc[s[i]] <= demand_by_loc[s[j]]

\* C30: in a pass of the capacity repair loop, a vehicle found over capacity has every
\* one of its locations removed during its turn: its own list is empty right after
\* the turn, whether or not the remaining demand would have fitted earlier; each
\* location goes to the end of the list of its first allowed alternate (to no list if
\* it has none), in order of descending priority number and, within equal priority,
\* ascending demand.
C30_OverCapacityEmptied ==
    [][(pc = "cap_turn" /\ OverCapacity(assignments, allowed_vehicles[vi])) =>
          LET vid == allowed_vehicles[vi]
              held == Range(assignments[vid])
          IN /\ assignments'[vid] = <<>>
             /\ \A t \in VehSet \ {vid} :
                   /\ IsAppended(assignments[t], assignments'[t],
                                 {l \in held : FirstAlt(l, vid) = t})
                   /\ InHandOverOrder(Received(assignments, assignments', t))]_vars

\* Reached: in the capacity loop, the first allowed vehicle has just been emptied of
\* three locations, of which the first removed alone would have brought it within its
\* capacity; another vehicle received two of them of different priorities.
C30_Witness ==
    /\ pc = "cap_turn" /\ vi = 2 /\ changed /\ run = 1
    /\ LET vid == allowed_vehicles[1]
       IN /\ assignments[vid] = <<>>
          /\ Len(capped[vid]) = 3
          /\ TotalDemand(capped[vid]) = veh_caps[vid] + 1
          /\ \E t \in VehSet \ {vid} :
                \E k \in 1..(Len(assignments[t]) - 1) :
                    /\ {assignments[t][k], assignments[t][k + 1]} \subseteq Range(capped[vid])
                    /\ prio_by_loc[assignments[t][k]] > prio_by_loc[assignments[t][k + 1]]

\* The estimated distance of vehicle vid with the list locs.
RouteKm(vid, locs) == SumOver(locs, LegKm[DepotOf[vid]])

\* C26: in one pass of the distance/time repair, the locations removed from a vehicle
\* that is over a budget are exactly the shortest prefix of its list sorted by
\* descending priority number after which the vehicle is back within both budgets
\* (all of them if it never is); each removed location is appended to the first
\* allowed vehicle of its ranking other than the current one, or is left in no list
\* if there is none.
C26_ShortestPrefixRemoved ==
    [][(/\ pc = "dist_turn"
        /\ assignments[allowed_vehicles[vi]] # <<>>
        /\ ~WithinDistTime(RouteKm(allowed_vehicles[vi], assignments[allowed_vehicles[vi]]))) =>
          LET vid == allowed_vehicles[vi]
              locs == assignments[vid]
              locs_sorted == SortedBy(locs, DistanceKey)
              n == Len(locs) - Len(assignments'[vid])
              removed == {locs_sorted[k] : k \in 1..n}
              Kept(k) == SubSeq(locs_sorted, k + 1, Len(locs_sorted))
          IN /\ n >= 1
             /\ assignments'[vid] = SelectSeq(locs, LAMBDA l : l \notin removed)
             /\ n = Len(locs) \/ WithinDistTime(RouteKm(vid, Kept(n)))
             /\ \A k \in 1..(n - 1) : ~WithinDistTime(RouteKm(vid, Kept(k)))
             /\ \A t \in VehSet \ {vid} :
                   IsAppended(assignments[t], assignments'[t],
                              {l \in removed : FirstAlt(l, vid) = t})]_vars

\* Reached: in a pass of the distance/time loop the first allowed vehicle was over a
\* budget, lost a location to another vehicle and kept one, being within both budgets.
C26_Witness ==
    /\ pc = "dist_turn" /\ vi = 2 /\ change_loop /\ run = 1
    /\ LET vid == allowed_vehicles[1]
       IN /\ assignments[vid] # <<>>
          /\ WithinDistTime(RouteKm(vid, assignments[vid]))
          /\ \E t \in VehSet \ {vid} :
                /\ assignments[t] # <<>>
                /\ assignments[t][Len(assignments[t])] \in Range(input[vid])
                /\ FirstAlt(assignments[t][Len(assignments[t])], vid) = t

\* C27: when enforce_constraints returns, no vehicle's list is longer than
\* max_stops_per_vehicle: neither the redistribution of the stop-cap overflow nor the
\* later capacity and distance/time reassignments push a vehicle above the cap.
C27_WithinStopCapAtReturn ==
    Returned => \A v \in DOMAIN assignments : Len(assignments[v]) <= max_stops

\* C28: whatever the time budget, the capacity repair loop and the distance/time
\* repair loop each reach, after finitely many passes, a pass that changes nothing:
\* each loop that is entered is left, without the clock.
C28_LoopsSettle ==
    /\ (pc = "cap_head") ~> (pc = "dist_head")
    /\ (pc = "dist_head") ~> (pc = "final")

\* C29: if at least two vehicles have an allowed type, every location's ranking lists
\* all vehicles and the input assignment holds every location, enforce_constraints
\* returns an empty Unassigned list whatever the capacities, the stop cap and the
\* distance and time budgets are; and a location leaves the lists only in a step that
\* removes it from a vehicle other than which its ranking offers no allowed vehicle.
C29_NothingLostWithTwoAllowed ==
    [][/\ ( /\ pc' = "done"
            /\ Cardinality(AllowedSet) >= 2
            /\ \A l \in LocSet : Range(ranking_by_loc[l]) = VehSet
            /\ Assigned(input') = LocSet ) => unassigned' = {}
       /\ \A l \in Assigned(assignments) \ Assigned(assignments') :
             \E v \in DOMAIN assignments :
                 l \in Range(assignments[v]) /\ FirstAlt(l, v) = "none"]_vars

\* Reached: a call with exactly two allowed vehicles returned within the time budget
\* with nothing unassigned, after the locations of the disallowed vehicle were moved
\* and a stop cap and a distance or time budget made further moves.
C29_Witness ==
    /\ ReturnedInTime /\ run = 1
    /\ Cardinality(AllowedSet) = 2
    /\ unassigned = {}
    /\ \E v \in Disallowed : input[v] # <<>>
    /\ \E v \in AllowedSet : Len(capped[v]) > max_stops
    /\ DOMAIN total_dist # {}
    /\ max_dist < DefaultMaxDist

----------------------------------------------------------------------------
(* Properties of the QAOA engine.                                          *)

\* The gates of c from position a to position b.
Slice(c, a, b) == SubSeq(c, a, b)

\* c is K Hadamards, then p blocks of equal length, each of cost-layer gates followed
\* by the K rotations of the mixer, then the measurement of all qubits.
IsQaoaCircuit(c, K, p) ==
    LET body == Slice(c, K + 1, Len(c) - 1)
        L == Len(body) \div p
    IN /\ Len(c) >= K + 1
       /\ Slice(c, 1, K) = [i \in 1..K |-> Gate("h", <<i - 1>>)]
       /\ c[Len(c)] = Gate("measure", [i \in 1..K |-> i - 1])
       /\ Len(body) = p * L
       /\ L >= K
       /\ \A b \in 0..(p - 1) :
             LET block == Slice(body, b * L + 1, (b + 1) * L)
             IN /\ Slice(block, L - K + 1, L) = [i \in 1..K |-> Gate("rx", <<i - 1>>)]
                /\ \A k \in 1..(L - K) : block[k].gate \in {"rz", "zz"}

\* C22: in every variant and for every requested layer count p, each circuit executed
\* during the grid search is a Hadamard on each of the K qubits, then exactly p
\* repetitions of (cost layer, mixer layer) in that order, then a measurement of all
\* qubits.
C22_CircuitHasRequestedLayers ==
    (calc.op = "circuit" /\ calc.done) =>
        IsQaoaCircuit(calc.circuit, Len(calc.costs), calc.p)


\* The positions of c at which a mixer layer starts.
MixerStarts(c) == {k \in 1..Len(c) : c[k] = Gate("rx", <<0>>)}

\* The gates between the mixer layer that starts at m and what precedes its cost layer:
\* the Hadamards or the previous mixer layer.
CostLayerBefore(c, K, m) ==
    Slice(c, SetMax({K} \cup {k + K - 1 : k \in {x \in MixerStarts(c) : x < m}}) + 1, m - 1)

Interactions(layer) == SelectSeq(layer, LAMBDA g : g.gate = "zz")

QubitPairs(K) == {q \in (0..(K - 1)) \X (0..(K - 1)) : q[1] < q[2]}

\* The place of the pair q among the pairs i < j taken by ascending i, then ascending j.
PairRank(q, K) ==
    Cardinality({r \in QubitPairs(K) : r[1] < q[1] \/ (r[1] = q[1] /\ r[2] <= q[2])})

\* The layer has one interaction on each pair of `pairs` and no other.
OneInteractionEach(layer, pairs) ==
    /\ Len(Interactions(layer)) = Cardinality(pairs)
    /\ {Interactions(layer)[k].on : k \in 1..Len(Interactions(layer))} = pairs

\* C23 as stated: for every qubit count K >= 2 and penalty A > 0, each cost layer
\* applies exactly one ZZ interaction to each of the K(K-1)/2 qubit pairs i < j, in
\* every variant.
C23_EveryPairInteracts ==
    (calc.op = "circuit" /\ calc.done /\ Len(calc.costs) >= 2 /\ calc.A > 0) =>
        \A m \in MixerStarts(calc.circuit) :
            OneInteractionEach(CostLayerBefore(calc.circuit, Len(calc.costs), m),
                               QubitPairs(Len(calc.costs)))

\* C23 amended: for K >= 2 and A > 0 (here: a multiple of 1e-7, which puts J = A/2
\* above the cloud variant's threshold of 1e-10) each cost layer of the baseline and
\* of the cloud variant applies exactly one ZZ interaction to each of the K(K-1)/2
\* pairs i < j; a cost layer of the accelerated variant applies one to each of the
\* first min(15, K(K-1)/2) pairs only, taken by ascending i and then ascending j, and
\* none at all when J = A/2 is not above 1e-6.
C23_PairsInteractUpToTheCap ==
    (calc.op = "circuit" /\ calc.done /\ Len(calc.costs) >= 2 /\ calc.A > 0) =>
        LET K == Len(calc.costs)
        IN \A m \in MixerStarts(calc.circuit) :
              OneInteractionEach(
                  CostLayerBefore(calc.circuit, K, m),
                  IF calc.variant # "accelerated" THEN QubitPairs(K)
                  ELSE IF calc.A > AerThreshold
                       THEN {q \in QubitPairs(K) : PairRank(q, K) <= MaxPairs}
                       ELSE {})

\* Reached: a circuit of the accelerated variant on the largest fleet, with the default
\* penalty, whose cost layer has 15 interactions and leaves pairs without one.
C23_Witness ==
    /\ calc.op = "circuit" /\ calc.done
    /\ calc.variant = "accelerated"
    /\ Len(calc.costs) = MaxCircuitQubits
    /\ calc.A = DefaultPenalty
    /\ Len(Interactions(calc.circuit)) = MaxPairs
    /\ \E q \in QubitPairs(MaxCircuitQubits) :
          \A k \in 1..Len(calc.circuit) : calc.circuit[k].on # q

\* The pairs of the grid after the variant's size cap.
CappedGrid(variant, n) == IF variant = "accelerated" THEN 1..Minimum(n, GridCap) ELSE 1..n

\* The trial of pair i gave samples, and their count-weighted sum of bit-costs.
GaveSamples(i) == calc.outcomes[i].kind = "counts"
TrialEnergy(i) ==
    energy_from_counts(calc.variant, calc.outcomes[i].counts, calc.costs, calc.A)

\* C24: run_qaoa_assignment samples every (gamma, beta) pair of its grid (after the
\* variant's size cap) and returns as best pair, and extracts counts from, a trial
\* whose average energy, the count-weighted sum of bit-costs divided by shots, is
\* minimal among all those pairs; a trial that errored or returned no counts is never
\* selected.
C24_BestOfTheWholeGrid ==
    (calc.op = "search" /\ calc.done /\ ~calc.result.raised) =>
        LET grid == CappedGrid(calc.variant, Len(calc.outcomes))
            best == calc.result.best_pair
        IN IF \E i \in grid : GaveSamples(i)
           THEN /\ best \in grid
                /\ GaveSamples(best)
                /\ \A i \in grid : GaveSamples(i) => TrialEnergy(best) <= TrialEnergy(i)
                /\ calc.result.best_counts = calc.outcomes[best].counts
           ELSE best = 0

\* No index gets any weight from the samples of the best trial.
NoIndexHasWeight ==
    \A i \in 1..Len(calc.costs) :
        \A x \in DOMAIN calc.result.best_counts :
            Weight(calc.variant, x, calc.result.best_counts[x], calc.costs, i) = 0

\* C25: in every variant, when the best trial's samples give no index any weight, the
\* returned counts-by-index has exactly one key, argmin(costs), holding the full shot
\* count; in every case the returned map is non-empty and all its keys are vehicle
\* indices (here the positions 1..K).
C25_FallbackToArgmin ==
    (calc.op = "search" /\ calc.done /\ ~calc.result.raised) =>
        LET K == Len(calc.costs)
            counts_by_index == calc.result.counts_by_index
        IN /\ NoIndexHasWeight =>
                 counts_by_index = [i \in {ArgMin(calc.costs, 1..K)} |-> calc.shots]
           /\ DOMAIN counts_by_index # {}
           /\ DOMAIN counts_by_index \subseteq 1..K

====
